---- MODULE Spec2Model ----
(***************************************************************************)
(* A model of github.com/sghaida/dyorm: the Partition range producer, the  *)
(* bulk read pipeline (GetByIDs), the bulk write handlers, the single      *)
(* record handlers and the expression wrapper they compile requests with.  *)
(*                                                                         *)
(* Conventions                                                             *)
(*   - a Go string is a string, len(s) < 1 is s = "";                      *)
(*   - a Go pointer is Nil (<<>>) or Ptr(v) (<<v>>);                       *)
(*   - a Go error is a string, NoErr for nil;                              *)
(*   - a Go map is a function over the set of its keys.                    *)
(***************************************************************************)
EXTENDS Integers, Sequences, FiniteSets, TLC

\* ------------------------------------------------------------------ bounds
\* largest collection length handed to Partition
MaxLen == 30
\* largest partition size handed to Partition
MaxSize == 26
\* how far below zero the Partition arguments range
NegLen == 2
\* most entries of a batch request the transport reports as unprocessed
MaxUnprocessed == 2
\* longest record or key list handed to a bulk write handler
MaxRecords == 27
\* most chained calls made on one expression wrapper before it is compiled
MaxCalls == 3
\* GetByIDs is handed 0..FewKeys keys, or GetBatchSize-1..MaxKeys keys
FewKeys == 2
MaxKeys == 29

\* ------------------------------------------------------- Go value helpers
Nil == <<>>
Ptr(v) == <<v>>
Deref(p) == p[1]
NoErr == "nil"

Abs(a) == IF a < 0 THEN 0 - a ELSE a
Sign(a) == IF a < 0 THEN 0 - 1 ELSE 1
\* Go's integer division truncates toward zero, and % takes the dividend's sign
GoDiv(a, b) == Sign(a) * Sign(b) * (Abs(a) \div Abs(b))
GoMod(a, b) == a - b * GoDiv(a, b)
Min(a, b) == IF a < b THEN a ELSE b

\* ---------------------------------------------------------------- state
VARIABLES
    \* Partition(collectionLen, partitionSize) and its goroutine
    collectionLen, partitionSize,
    pPc,          \* "call" | "loop" | "leftover" | "close" | "done"
    pI,           \* the goroutine's loop index i
    pagesClosed,  \* close(c) has run
    \* a `for r := range Partition(..)` consumer of the channel
    cPc,          \* "none" | "range" | "ended"
    received,     \* the ranges the consumer has received, in order
    lastRecv,     \* the outcome <<value, ok>> of the consumer's latest receive
    readers       \* several range loops over one channel, each [pc, received],
                  \* pc being "range" | "ended"; <<>> when there are none

VARIABLES
    \* one invocation of a handler method: h.config, the method, its arguments,
    \* the transport calls it has issued and what it returned
    config,
    op,           \* the handler method invoked, "none" when there is none
    args,         \* its arguments
    phase,        \* "idle" | "called" | "returned" | "panicked"
    calls,        \* the transport calls issued so far, in order, each with
                  \* the request handed over and the transport's answer
    ret           \* the returned values

VARIABLES
    \* GetByIDs: the calling goroutine and the chunk tasks it starts
    gPc,          \* "idle" | "start" | "dispatch" | "recv" | "returned"
    chCap,        \* the capacity the result channel ch was made with
    chBuf,        \* the messages buffered in ch
    gRecords,     \* the caller's local `records`
    tasks         \* the chunk goroutines, in the order they were started: each
                  \* [page, pc, req, records, err, calls], pc being "build" |
                  \* "load" | "send" | "done", calls its batch-get calls so far

VARIABLES
    \* an expression wrapper a caller builds with chained calls and compiles
    wrapper,      \* the *AwsExpressionWrapper, <<>> when there is none
    wLog,         \* the calls made on it so far, in order
    wOut          \* <<>>, or the compile operation run on it with what it returned

partVars == <<collectionLen, partitionSize, pPc, pI, pagesClosed>>
consVars == <<cPc, received, lastRecv, readers>>
handlerVars == <<config, op, args, phase, calls, ret>>
getVars == <<gPc, chCap, chBuf, gRecords, tasks>>
builderVars == <<wrapper, wLog, wOut>>
vars == <<partVars, consVars, handlerVars, getVars, builderVars>>

\* ------------------------------------------------------------ paginator.go
IdxRange(low, high) == [Low |-> low, High |-> high]
ZeroIdxRange == IdxRange(0, 0)

\* mutant: one full partition too many
NumFullPartitions_OneMore(n, p) == GoDiv(n, p) + 1

NumFullPartitions(n, p) == GoDiv(n, p)

\* mutant: the left-over range is sent even when nothing is left over
HasLeftOver_Always(n, p) == TRUE

HasLeftOver(n, p) == GoMod(n, p) # 0

\* Partition up to its return: the channel is made, closed at once when
\* partitionSize <= 0, and otherwise the producing goroutine is started.
PartitionCall ==
    /\ pPc = "call"
    /\ IF partitionSize <= 0
          THEN /\ pagesClosed' = TRUE
               /\ pPc' = "done"
          ELSE /\ pagesClosed' = FALSE
               /\ pPc' = "loop"
    /\ pI' = 0
    /\ UNCHANGED <<collectionLen, partitionSize>>

\* The range the goroutine is blocked sending on the unbuffered channel, as a
\* set: empty when it is not at a send.
PartitionOffer ==
    IF pPc = "loop" /\ pI < NumFullPartitions(collectionLen, partitionSize)
    THEN {IdxRange(pI * partitionSize, (pI + 1) * partitionSize)}
    ELSE IF pPc = "leftover" /\ HasLeftOver(collectionLen, partitionSize)
    THEN {IdxRange(pI * partitionSize, collectionLen)}
    ELSE {}

\* The goroutine's side of a completed send (the receiver's side is the
\* action that conjoins this).
PartitionSent ==
    /\ PartitionOffer # {}
    /\ IF pPc = "loop"
          THEN pI' = pI + 1 /\ pPc' = pPc
          ELSE pI' = pI /\ pPc' = "close"
    /\ UNCHANGED <<collectionLen, partitionSize, pagesClosed>>

\* i < numFullPartitions is false: the for loop ends
PartitionLoopExit ==
    /\ pPc = "loop"
    /\ ~(pI < NumFullPartitions(collectionLen, partitionSize))
    /\ pPc' = "leftover"
    /\ UNCHANGED <<collectionLen, partitionSize, pI, pagesClosed>>

\* collectionLen % partitionSize == 0: nothing is left over
PartitionNoLeftOver ==
    /\ pPc = "leftover"
    /\ ~HasLeftOver(collectionLen, partitionSize)
    /\ pPc' = "close"
    /\ UNCHANGED <<collectionLen, partitionSize, pI, pagesClosed>>

PartitionClose ==
    /\ pPc = "close"
    /\ pagesClosed' = TRUE
    /\ pPc' = "done"
    /\ UNCHANGED <<collectionLen, partitionSize, pI>>

\* the steps the goroutine takes without a receiver
PartitionStep ==
    \/ PartitionLoopExit
    \/ PartitionNoLeftOver
    \/ PartitionClose

\* ------------------------------------------- a range loop over the channel
ConsumerReceive ==
    /\ cPc = "range"
    /\ \E r \in PartitionOffer :
          /\ received' = Append(received, r)
          /\ lastRecv' = <<r, TRUE>>
    /\ PartitionSent
    /\ UNCHANGED <<cPc, readers>>

\* a receive from the closed channel yields the zero value and ok = false
ConsumerSeesClosed ==
    /\ cPc = "range"
    /\ pagesClosed
    /\ lastRecv' = <<ZeroIdxRange, FALSE>>
    /\ cPc' = "ended"
    /\ UNCHANGED <<received, readers, partVars>>

\* ------------------------------------------------- keys and table config
EmptyMap == <<>>
MapSet(m, k, v) == [x \in (DOMAIN m) \cup {k} |-> IF x = k THEN v ELSE m[x]]
MapLen(m) == Cardinality(DOMAIN m)

\* *dynamodb.AttributeValue{S: aws.String(s)}
AttrS(s) == Ptr([S |-> s])

dbPSKeyValues(partitionKey, sortKey) ==
    [partitionKey |-> partitionKey, sortKey |-> sortKey]

DBConfig(tableName, partitionKey, sortKey) ==
    [TableInfo |-> [TableName |-> tableName, PartitionKey |-> partitionKey,
                    SortKey |-> sortKey],
     Indexes |-> EmptyMap]

\* ------------------------------------------------------- aws_expression.go
\* expression.ConditionBuilder{} and expression.KeyConditionBuilder{}
UnsetBuilder == [mode |-> "unset"]

NewExpressionWrapper(tableName) ==
    [updateExpression |-> <<>>,
     conditionExpression |-> UnsetBuilder,
     keyCondition |-> UnsetBuilder,
     projection |-> <<>>,
     partitionKeyValue |-> Nil,
     sortKeyValue |-> Nil,
     exclusiveStartKey |-> EmptyMap,
     scanIndexForward |-> Nil,
     partitionKeyName |-> "",
     sortKeyName |-> "",
     dynamoDBTable |-> tableName,
     dynamoDBIndex |-> "",
     limit |-> Nil]

WithPartitionKey(expr, pKey, pValue) ==
    [expr EXCEPT !.partitionKeyName = pKey,
                 !.partitionKeyValue = IF pValue # "" THEN AttrS(pValue) ELSE @]

WithSortingKey(expr, sKey, sValue) ==
    [expr EXCEPT !.sortKeyName = sKey,
                 !.sortKeyValue = IF sValue # "" THEN AttrS(sValue) ELSE @]

\* the key map, or the error; the sort key entry is written whenever a sort key
\* name is set, with whatever sortKeyValue holds (nil included)
CreateQueryKeys(expr) ==
    IF expr.partitionKeyName = "" \/ expr.partitionKeyValue = Nil
    THEN [keys |-> EmptyMap, err |-> "missing partition key"]
    ELSE LET pk == MapSet(EmptyMap, expr.partitionKeyName, expr.partitionKeyValue)
         IN [keys |-> IF expr.sortKeyName # ""
                         THEN MapSet(pk, expr.sortKeyName, expr.sortKeyValue)
                         ELSE pk,
             err |-> NoErr]

\* ------------------------------------------- the record codec (BaseModel)
TestBaseModel(name, age, skey, withErr) ==
    [Name |-> name, Age |-> age, SKey |-> skey, withMarshallingErr |-> withErr]

ZeroModel == TestBaseModel("", 0, "", FALSE)

\* dynamodbattribute encodes an empty string as NULL
AttrOfString(s) == IF s = "" THEN Ptr([NULL |-> TRUE]) ELSE AttrS(s)

Marshal(mdl) ==
    IF mdl.withMarshallingErr
    THEN [item |-> EmptyMap, err |-> "marshalling error"]
    ELSE [item |-> [f \in {"Name", "Age", "SKey"} |->
                       CASE f = "Name" -> AttrOfString(mdl.Name)
                         [] f = "Age" -> Ptr([N |-> mdl.Age])
                         [] f = "SKey" -> AttrOfString(mdl.SKey)],
          err |-> NoErr]

\* the field f of the decoded struct: the attribute's value when the map has
\* one of that type, the zero value for NULL, else what the receiver held
DecodeField(data, f, type, zero, held) ==
    IF f \in DOMAIN data /\ data[f] # Nil
    THEN LET av == Deref(data[f])
         IN IF type \in DOMAIN av THEN av[type]
            ELSE IF "NULL" \in DOMAIN av THEN zero
            ELSE held
    ELSE held

Unmarshal(mdl, data) ==
    LET out == [Name |-> DecodeField(data, "Name", "S", "", mdl.Name),
                Age |-> DecodeField(data, "Age", "N", 0, mdl.Age),
                SKey |-> DecodeField(data, "SKey", "S", "", mdl.SKey),
                withMarshallingErr |-> mdl.withMarshallingErr]
    IN IF mdl.withMarshallingErr
       THEN [mdl |-> Nil, err |-> "unmarshalling error"]
       ELSE IF out = ZeroModel
       THEN [mdl |-> Nil, err |-> "error marshaling"]
       ELSE [mdl |-> Ptr(out), err |-> NoErr]

GetPartSortKey(mdl) ==
    dbPSKeyValues(mdl.Name, IF mdl.SKey # "" THEN Ptr(mdl.SKey) ELSE Nil)

\* mutant: the generated identifier is the empty string
NewUUID_Empty(k) == ""

\* uuid.New().String(): the k-th identifier generated, never empty
NewUUID(k) == "uuid-" \o ToString(k)

\* -------------------------------------------------------------- command.go
\* the most records one batchWrite call sends
WriteBatchMax == 25

\* what the batch-write call of the transport may answer to a request: an
\* error, or some of the request's entries as unprocessed, possibly (for puts)
\* with an entry the codec cannot decode
AlienItem == [f \in {"Test"} |-> AttrS("test")]

UnprocessedLists(requests) ==
    {SubSeq(requests, 1, u) : u \in 0..Min(MaxUnprocessed, Len(requests))}
    \cup IF \E k \in 1..Len(requests) : "PutRequest" \in DOMAIN requests[k]
            THEN {<<[PutRequest |-> [Item |-> AlienItem]]>>}
            ELSE {}

BatchWriteItemWithContext(input, table) ==
    {[out |-> Nil, err |-> "db error"]}
    \cup {[out |-> Ptr([UnprocessedItems |-> IF Len(u) = 0 THEN EmptyMap
                                               ELSE MapSet(EmptyMap, table, u)]),
           err |-> NoErr] : u \in UnprocessedLists(input.RequestItems[table])}

\* a read of a map entry that may be absent: the zero value
MapGetSeq(m, k) == IF k \in DOMAIN m THEN m[k] ELSE <<>>
MapGet(m, k) == IF k \in DOMAIN m THEN m[k] ELSE Nil

\* mutant: `return nil, err` where the code returns the input list
Returned_NilOnError(list, err) ==
    [list |-> IF err # NoErr THEN <<>> ELSE list, err |-> err]

\* the (list, error) pair a bulk handler returns
Returned(list, err) == [list |-> list, err |-> err]

\* rec is the k-th record of the invocation (its generated keys are the
\* (2k-1)-th and 2k-th identifiers)
createPutItem(h, in, createPartKey, createSortKey, k) ==
    LET m == Marshal(in)
        tabInfo == h.TableInfo
        recPartKey == GetPartSortKey(in).partitionKey
        recSortKey == GetPartSortKey(in).sortKey
        partitionKey == IF recPartKey = "" THEN NewUUID(2 * k - 1) ELSE recPartKey
        item1 == MapSet(m.item, tabInfo.PartitionKey, AttrS(partitionKey))
        sortKey == IF tabInfo.SortKey # Nil /\ recSortKey = Nil
                      THEN Ptr(NewUUID(2 * k))
                      ELSE recSortKey
        item2 == IF tabInfo.SortKey # Nil /\ sortKey # Nil
                    THEN MapSet(item1, Deref(tabInfo.SortKey), AttrS(Deref(sortKey)))
                    ELSE item1
        fail(e) == [item |-> EmptyMap, keys |-> Nil, err |-> e]
    IN IF m.err # NoErr THEN fail(m.err)
       ELSE IF recPartKey = "" /\ ~createPartKey
       THEN fail("missing required partition key")
       ELSE IF tabInfo.SortKey # Nil /\ recSortKey = Nil /\ ~createSortKey
       THEN fail("missing required sorting key")
       ELSE [item |-> item2, keys |-> Ptr(dbPSKeyValues(partitionKey, sortKey)),
             err |-> NoErr]

\* mutant: every record is sent, whatever the length of the list
BatchWriteMax_NoCap(records) == Len(records)

\* max := int(math.Min(25, float64(len(records))))
BatchWriteMax(records) == Min(WriteBatchMax, Len(records))

\* the loop of batchWrite over records[:max], from the k-th record on: the put
\* requests built, or the error of the first record that fails
RECURSIVE batchWriteLoop(_, _, _, _, _, _, _)
batchWriteLoop(h, records, max, createPartKey, createSortKey, k, requests) ==
    IF k > max THEN [requests |-> requests, err |-> NoErr]
    ELSE LET put == createPutItem(h, records[k], createPartKey, createSortKey, k)
         IN IF put.err # NoErr
            THEN [requests |-> requests, err |-> put.err]
            ELSE batchWriteLoop(h, records, max, createPartKey, createSortKey, k + 1,
                     Append(requests, [PutRequest |-> [Item |-> put.item]]))

\* the loop of batchWrite over res.UnprocessedItems[table], from the k-th on
RECURSIVE decodeUnprocessedPuts(_, _, _, _)
decodeUnprocessedPuts(baseModel, items, k, unprocessedItems) ==
    IF k > Len(items) THEN [list |-> unprocessedItems, err |-> NoErr]
    ELSE LET rec == Unmarshal(baseModel, items[k].PutRequest.Item)
         IN IF rec.err # NoErr
            THEN [list |-> unprocessedItems, err |-> rec.err]
            ELSE decodeUnprocessedPuts(baseModel, items, k + 1,
                     Append(unprocessedItems, Deref(rec.mdl)))

batchWrite(baseModel, records, createPartKey, createSortKey) ==
    LET h == config
        table == h.TableInfo.TableName
        max == BatchWriteMax(records)
        built == batchWriteLoop(h, records, max, createPartKey, createSortKey, 1, <<>>)
        bInput == [RequestItems |-> MapSet(EmptyMap, table, built.requests)]
    IN IF built.err # NoErr
       THEN /\ ret' = Returned(records, built.err)
            /\ calls' = calls
            /\ phase' = "returned"
       ELSE \E res \in BatchWriteItemWithContext(bInput, table) :
              /\ calls' = Append(calls, [api |-> "BatchWriteItem", input |-> bInput,
                                       res |-> res])
              /\ phase' = "returned"
              /\ IF res.err # NoErr
                    THEN ret' = Returned(records, res.err)
                    ELSE LET dec == decodeUnprocessedPuts(baseModel,
                                        MapGetSeq(Deref(res.out).UnprocessedItems, table),
                                        1, SubSeq(records, max + 1, Len(records)))
                         IN IF dec.err # NoErr
                               THEN ret' = Returned(records, dec.err)
                               ELSE ret' = Returned(dec.list, NoErr)

BulkAddRecords ==
    /\ op = "BulkAddRecords"
    /\ phase = "called"
    /\ batchWrite(args.baseModel, args.records, TRUE, args.createSortKey)
    /\ UNCHANGED <<config, op, args>>

\* mutant: the update variant generates the keys a record lacks
BulkUpdateRecords_Generating ==
    /\ op = "BulkUpdateRecords"
    /\ phase = "called"
    /\ batchWrite(args.baseModel, args.records, TRUE, TRUE)
    /\ UNCHANGED <<config, op, args>>

BulkUpdateRecords ==
    /\ op = "BulkUpdateRecords"
    /\ phase = "called"
    /\ batchWrite(args.baseModel, args.records, FALSE, FALSE)
    /\ UNCHANGED <<config, op, args>>

\* no wrapper is being built
BuilderIdle ==
    /\ wrapper = <<>>
    /\ wLog = <<>>
    /\ wOut = <<>>

\* no GetByIDs call is running
GetByIDsIdle ==
    /\ gPc = "idle"
    /\ chCap = 0
    /\ chBuf = <<>>
    /\ gRecords = <<>>
    /\ tasks = <<>>

\* no handler is invoked
HandlersIdle ==
    /\ config = <<>>
    /\ op = "none"
    /\ args = <<>>
    /\ phase = "idle"
    /\ calls = <<>>
    /\ ret = <<>>

InitPartition ==
    /\ HandlersIdle
    /\ BuilderIdle
    /\ GetByIDsIdle
    /\ collectionLen \in (0 - NegLen)..MaxLen
    /\ partitionSize \in (0 - NegLen)..MaxSize
    /\ pPc = "call"
    /\ pI = 0
    /\ pagesClosed = FALSE
    /\ cPc = "range"
    /\ received = <<>>
    /\ lastRecv = <<>>
    /\ readers = <<>>

NextPartition ==
    \/ PartitionCall /\ UNCHANGED <<consVars, handlerVars, getVars, builderVars>>
    \/ PartitionStep /\ UNCHANGED <<consVars, handlerVars, getVars, builderVars>>
    \/ ConsumerReceive /\ UNCHANGED <<handlerVars, getVars, builderVars>>
    \/ ConsumerSeesClosed /\ UNCHANGED <<handlerVars, getVars, builderVars>>

SpecPartition == InitPartition /\ [][NextPartition]_vars

\* dynamodbattribute.Unmarshal(av, &s) with its error dropped: s keeps "" unless
\* av holds a string
DecodeString(av) ==
    IF av # Nil /\ "S" \in DOMAIN Deref(av) THEN Deref(av).S ELSE ""

\* the loop of BulkDeleteRecords over dbKeys, from the k-th key on
RECURSIVE bulkDeleteLoop(_, _, _, _)
bulkDeleteLoop(h, dbKeys, k, items) ==
    IF k > Len(dbKeys) THEN [items |-> items, err |-> NoErr]
    ELSE LET key == dbKeys[k]
             tableKeys == h.TableInfo
             expr0 == WithPartitionKey(NewExpressionWrapper(h.TableInfo.TableName),
                          tableKeys.PartitionKey, key.partitionKey)
             expr == IF tableKeys.SortKey # Nil /\ key.sortKey # Nil
                        THEN WithSortingKey(expr0, Deref(tableKeys.SortKey),
                                 Deref(key.sortKey))
                        ELSE expr0
             attribute == CreateQueryKeys(expr)
         IN IF tableKeys.SortKey # Nil /\ key.sortKey = Nil
            THEN [items |-> items, err |-> "missing required sort key"]
            ELSE IF attribute.err # NoErr
            THEN [items |-> items, err |-> attribute.err]
            ELSE bulkDeleteLoop(h, dbKeys, k + 1,
                     Append(items, [DeleteRequest |-> [Key |-> attribute.keys]]))

\* one iteration of the loop over out.UnprocessedItems[table]; the sort key
\* name is read through *tabInfo.SortKey
decodeUnprocessedDelete(tabInfo, item) ==
    LET partKey == DecodeString(MapGet(item.DeleteRequest.Key, tabInfo.PartitionKey))
        sortKey == DecodeString(MapGet(item.DeleteRequest.Key, Deref(tabInfo.SortKey)))
    IN dbPSKeyValues(partKey, IF sortKey # "" THEN Ptr(sortKey) ELSE Nil)

BulkDeleteRecords ==
    /\ op = "BulkDeleteRecords"
    /\ phase = "called"
    /\ LET h == config
           tabInfo == h.TableInfo
           dbKeys == args.dbKeys
           built == bulkDeleteLoop(h, dbKeys, 1, <<>>)
           input == [RequestItems |-> MapSet(EmptyMap, tabInfo.TableName, built.items)]
       IN IF built.err # NoErr
          THEN /\ ret' = Returned(dbKeys, built.err)
               /\ calls' = calls
               /\ phase' = "returned"
          ELSE \E res \in BatchWriteItemWithContext(input, tabInfo.TableName) :
                 /\ calls' = Append(calls, [api |-> "BatchWriteItem", input |-> input,
                                          res |-> res])
                 /\ IF res.err # NoErr
                       THEN /\ ret' = Returned(dbKeys, res.err)
                            /\ phase' = "returned"
                       ELSE LET items == MapGetSeq(Deref(res.out).UnprocessedItems,
                                             tabInfo.TableName)
                            IN IF Len(items) > 0 /\ tabInfo.SortKey = Nil
                                  THEN \* nil pointer dereference of tabInfo.SortKey
                                       /\ ret' = <<>>
                                       /\ phase' = "panicked"
                                  ELSE /\ ret' = Returned(
                                              [k \in 1..Len(items) |->
                                                  decodeUnprocessedDelete(tabInfo, items[k])],
                                              NoErr)
                                       /\ phase' = "returned"
    /\ UNCHANGED <<config, op, args>>

\* ------------------------------------------------ the handler invocations
Configs ==
    {DBConfig("table", "partKey", Ptr("sortKey")), DBConfig("table", "partKey", Nil)}

\* the i-th record of an input list, and what may be wrong with one record
Rec(i) == TestBaseModel("n" \o ToString(i), i, "s" \o ToString(i), FALSE)

BrokenRec(rec, defect) ==
    CASE defect = "noPart" -> [rec EXCEPT !.Name = ""]
      [] defect = "noSort" -> [rec EXCEPT !.SKey = ""]
      [] defect = "marshalErr" -> [rec EXCEPT !.withMarshallingErr = TRUE]
      [] defect = "zero" -> ZeroModel

\* the positions at which an input list of length n holds its broken entry
DefectPositions(n) == {1, n, WriteBatchMax + 1} \cap 1..n

RecordLists ==
    {[i \in 1..n |-> Rec(i)] : n \in 0..MaxRecords}
    \cup UNION {{[i \in 1..n |-> IF i = pos THEN BrokenRec(Rec(i), d) ELSE Rec(i)] :
                    pos \in DefectPositions(n),
                    d \in {"noPart", "noSort", "marshalErr", "zero"}} :
                n \in 1..MaxRecords}

Key(i) == dbPSKeyValues("p" \o ToString(i), Ptr("s" \o ToString(i)))

BrokenKey(key, defect) ==
    CASE defect = "noPart" -> [key EXCEPT !.partitionKey = ""]
      [] defect = "nilSort" -> [key EXCEPT !.sortKey = Nil]
      [] defect = "emptySort" -> [key EXCEPT !.sortKey = Ptr("")]

KeyLists ==
    {[i \in 1..n |-> Key(i)] : n \in 0..MaxRecords}
    \cup UNION {{[i \in 1..n |-> IF i = pos THEN BrokenKey(Key(i), d) ELSE Key(i)] :
                    pos \in DefectPositions(n),
                    d \in {"noPart", "nilSort", "emptySort"}} :
                n \in 1..MaxRecords}

BaseModels == {ZeroModel, TestBaseModel("", 0, "", TRUE)}

ArgsOf(method) ==
    CASE method = "BulkAddRecords" ->
            [baseModel : BaseModels, createSortKey : BOOLEAN, records : RecordLists]
      [] method = "BulkUpdateRecords" ->
            [baseModel : BaseModels, records : RecordLists]
      [] method = "BulkDeleteRecords" ->
            [dbKeys : KeyLists]

BulkMethods == {"BulkAddRecords", "BulkUpdateRecords", "BulkDeleteRecords"}

PartitionIdle ==
    /\ collectionLen = 0
    /\ partitionSize = 0
    /\ pPc = "idle"
    /\ pI = 0
    /\ pagesClosed = FALSE
    /\ cPc = "none"
    /\ received = <<>>
    /\ lastRecv = <<>>
    /\ readers = <<>>

InitBulk ==
    /\ PartitionIdle
    /\ BuilderIdle
    /\ GetByIDsIdle
    /\ config \in Configs
    /\ op \in BulkMethods
    /\ args \in ArgsOf(op)
    /\ phase = "called"
    /\ calls = <<>>
    /\ ret = <<>>

NextBulk ==
    \/ BulkAddRecords /\ UNCHANGED <<partVars, consVars, getVars, builderVars>>
    \/ BulkUpdateRecords /\ UNCHANGED <<partVars, consVars, getVars, builderVars>>
    \/ BulkDeleteRecords /\ UNCHANGED <<partVars, consVars, getVars, builderVars>>

SpecBulk == InitBulk /\ [][NextBulk]_vars

\* ---------------------------------------------------------------- query.go
\* the partition size GetByIDs hands to Partition
GetBatchSize == 25

\* the loop of buildGetRequests over ids, from the k-th on: a key that does
\* not compile is skipped
RECURSIVE buildGetLoop(_, _, _, _)
buildGetLoop(h, ids, k, attributes) ==
    IF k > Len(ids) THEN attributes
    ELSE LET id == ids[k]
             dbKeys == h.TableInfo
             expr0 == WithPartitionKey(NewExpressionWrapper(h.TableInfo.TableName),
                          dbKeys.PartitionKey, id.partitionKey)
             expr == IF dbKeys.SortKey # Nil /\ id.sortKey # Nil
                        THEN WithSortingKey(expr0, Deref(dbKeys.SortKey), Deref(id.sortKey))
                        ELSE expr0
             attribute == CreateQueryKeys(expr)
         IN IF attribute.err # NoErr
            THEN buildGetLoop(h, ids, k + 1, attributes)
            ELSE buildGetLoop(h, ids, k + 1, Append(attributes, attribute.keys))

\* always a request, also when no key compiled
buildGetRequests(h, ids) ==
    Ptr([RequestItems |->
            MapSet(EmptyMap, h.TableInfo.TableName,
                   [Keys |-> buildGetLoop(h, ids, 1, <<>>)])])

\* the item the table holds under a key
ItemOf(h, key) ==
    LET pk == DecodeString(MapGet(key, h.TableInfo.PartitionKey))
        sk == IF h.TableInfo.SortKey # Nil
                 THEN DecodeString(MapGet(key, Deref(h.TableInfo.SortKey)))
                 ELSE ""
        fields == Marshal(TestBaseModel(pk, 1, sk, FALSE)).item
    IN [f \in (DOMAIN fields) \cup (DOMAIN key) |->
           IF f \in DOMAIN fields THEN fields[f] ELSE key[f]]

\* what the batch-get call of the transport may answer to a request: an
\* error; the items of all keys but the last u, which it reports as
\* unprocessed (it always processes one key at least); or the items followed
\* by one the codec cannot decode
BatchGetItemWithContext(h, input) ==
    LET table == h.TableInfo.TableName
        keys == input.RequestItems[table].Keys
        n == Len(keys)
        maxU == IF n = 0 THEN 0 ELSE Min(MaxUnprocessed, n - 1)
        items(m) == [k \in 1..m |-> ItemOf(h, keys[k])]
        output(its, unprocessed) ==
            [out |-> Ptr([Responses |-> IF Len(its) = 0 THEN EmptyMap
                                           ELSE MapSet(EmptyMap, table, its),
                          UnprocessedKeys |->
                              IF Len(unprocessed) = 0 THEN EmptyMap
                              ELSE MapSet(EmptyMap, table, [Keys |-> unprocessed])]),
             err |-> NoErr]
    IN {[out |-> Nil, err |-> "fake error"]}
       \cup {output(items(n - u), SubSeq(keys, n - u + 1, n)) : u \in 0..maxU}
       \cup {output(Append(items(n), AlienItem), <<>>)}

\* acc of loadPage: the items of res.Responses[table] are decoded in order
\* onto records, up to the first that fails
RECURSIVE acc(_, _, _, _)
acc(model, items, k, records) ==
    IF k > Len(items) THEN [records |-> records, err |-> NoErr]
    ELSE LET mdl == Unmarshal(model, items[k])
         IN IF mdl.err # NoErr
            THEN [records |-> records, err |-> mdl.err]
            ELSE acc(model, items, k + 1, Append(records, Deref(mdl.mdl)))

\* mutant: the unprocessed keys of an answer are not asked for again
loadRound_NoResubmit(h, model, task, res) ==
    LET called == [task EXCEPT !.calls = Append(@, [input |-> Deref(task.req),
                                                      res |-> res])]
        out == Deref(res.out)
        table == h.TableInfo.TableName
        decoded == IF MapLen(out.Responses) > 0
                      THEN acc(model, MapGetSeq(out.Responses, table), 1, task.records)
                      ELSE [records |-> task.records, err |-> NoErr]
    IN IF res.err # NoErr
       THEN [called EXCEPT !.err = res.err, !.pc = "send"]
       ELSE [called EXCEPT !.records = decoded.records, !.err = decoded.err,
                           !.pc = "send"]

\* the task's state after one activation of load(req) with the answer res
loadRound(h, model, task, res) ==
    LET called == [task EXCEPT !.calls = Append(@, [input |-> Deref(task.req),
                                                      res |-> res])]
        out == Deref(res.out)
        table == h.TableInfo.TableName
        decoded == IF MapLen(out.Responses) > 0
                      THEN acc(model, MapGetSeq(out.Responses, table), 1, task.records)
                      ELSE [records |-> task.records, err |-> NoErr]
    IN IF res.err # NoErr
       THEN [called EXCEPT !.err = res.err, !.pc = "send"]
       ELSE IF decoded.err # NoErr
       THEN [called EXCEPT !.records = decoded.records, !.err = decoded.err,
                           !.pc = "send"]
       ELSE IF MapLen(out.UnprocessedKeys) > 0
       THEN [called EXCEPT !.records = decoded.records,
                           !.req = Ptr([RequestItems |-> out.UnprocessedKeys])]
       ELSE [called EXCEPT !.records = decoded.records, !.err = NoErr, !.pc = "send"]

\* the page range as a slice expression: dbKeys[page.Low:page.High]
Slice(list, page) == SubSeq(list, page.Low + 1, page.High)

\* an unbuffered channel holds no element: len(pages) is 0
PagesBuffered == <<>>

\* pages := Partition(len(dbKeys), 25); ch := make(chan .., len(pages))
GetByIDsCall ==
    /\ op = "GetByIDs"
    /\ gPc = "start"
    /\ PartitionCall
    /\ chCap' = Len(PagesBuffered)
    /\ gPc' = "dispatch"
    /\ UNCHANGED <<chBuf, gRecords, tasks, handlerVars, consVars, builderVars>>

\* for page := range pages { go func(page) {..}(page) }
DispatchPage ==
    /\ gPc = "dispatch"
    /\ \E page \in PartitionOffer :
          tasks' = Append(tasks, [page |-> page, pc |-> "build", req |-> Nil,
                                  records |-> <<>>, err |-> NoErr, calls |-> <<>>])
    /\ PartitionSent
    /\ UNCHANGED <<gPc, chCap, chBuf, gRecords, handlerVars, consVars, builderVars>>

\* pages is closed: the range loop ends; records := make(.., 0, len(dbKeys))
DispatchDone ==
    /\ gPc = "dispatch"
    /\ pagesClosed
    /\ gPc' = "recv"
    /\ gRecords' = <<>>
    /\ UNCHANGED <<chCap, chBuf, tasks, handlerVars, partVars, consVars, builderVars>>

\* req := h.buildGetRequests(dbKeys[page.Low:page.High])
TaskBuild(t) ==
    /\ tasks[t].pc = "build"
    /\ tasks' = [tasks EXCEPT ![t].req =
                    buildGetRequests(config, Slice(args.dbKeys, tasks[t].page)),
                              ![t].pc = "load"]
    /\ UNCHANGED <<gPc, chCap, chBuf, gRecords, handlerVars, partVars, consVars, builderVars>>

\* one activation of load: the batch-get call, acc, and the test for
\* unprocessed keys
TaskLoad(t) ==
    /\ tasks[t].pc = "load"
    /\ tasks[t].req # Nil
    /\ \E res \in BatchGetItemWithContext(config, Deref(tasks[t].req)) :
          tasks' = [tasks EXCEPT ![t] = loadRound(config, args.input, tasks[t], res)]
    /\ UNCHANGED <<gPc, chCap, chBuf, gRecords, handlerVars, partVars, consVars, builderVars>>

\* what the caller does with a received message: `done` is the receive's
\* second value, true whenever a value was received from the open channel
Aggregate(res, done) ==
    IF res.Err # NoErr
    THEN /\ ret' = Returned(<<>>, res.Err)
         /\ phase' = "returned"
         /\ gPc' = "returned"
         /\ UNCHANGED gRecords
    ELSE IF done
    THEN /\ ret' = Returned(gRecords \o res.Records, NoErr)
         /\ phase' = "returned"
         /\ gPc' = "returned"
         /\ gRecords' = gRecords \o res.Records
    ELSE /\ gRecords' = gRecords \o res.Records
         /\ UNCHANGED <<ret, phase, gPc>>

Message(task) == [Records |-> task.records, Err |-> task.err]

\* ch has no buffer slot (chCap is 0), so a send completes only with a receive:
\* the send of task t meeting the caller's receive, the buffer being empty
TaskSendToReceiver(t) ==
    /\ tasks[t].pc = "send"
    /\ gPc = "recv"
    /\ Len(chBuf) = chCap
    /\ Aggregate(Message(tasks[t]), TRUE)
    /\ tasks' = [tasks EXCEPT ![t].pc = "done"]
    /\ UNCHANGED <<chCap, chBuf, config, op, args, calls, partVars, consVars, builderVars>>

\* the key lists GetByIDs is handed: n keys, with empty partition key values
\* at none, the first, the last or all of the positions
GetKeyCounts == (0..FewKeys) \cup ((GetBatchSize - 1)..MaxKeys)

GetKeyLists ==
    UNION {{[i \in 1..n |-> IF i \in bad THEN BrokenKey(Key(i), "noPart") ELSE Key(i)] :
               bad \in {{}, {1}, {n}, 1..n}} : n \in GetKeyCounts}

InitGetByIDs ==
    /\ BuilderIdle
    /\ config \in Configs
    /\ op = "GetByIDs"
    /\ args \in [input : BaseModels, dbKeys : GetKeyLists]
    /\ phase = "called"
    /\ calls = <<>>
    /\ ret = <<>>
    /\ collectionLen = Len(args.dbKeys)
    /\ partitionSize = GetBatchSize
    /\ pPc = "call"
    /\ pI = 0
    /\ pagesClosed = FALSE
    /\ cPc = "none"
    /\ received = <<>>
    /\ lastRecv = <<>>
    /\ readers = <<>>
    /\ gPc = "start"
    /\ chCap = 0
    /\ chBuf = <<>>
    /\ gRecords = <<>>
    /\ tasks = <<>>

NextGetByIDs ==
    \/ GetByIDsCall
    \/ PartitionStep /\ UNCHANGED <<consVars, handlerVars, getVars, builderVars>>
    \/ DispatchPage
    \/ DispatchDone
    \/ \E t \in 1..Len(tasks) : TaskBuild(t)
    \/ \E t \in 1..Len(tasks) : TaskLoad(t)
    \/ \E t \in 1..Len(tasks) : TaskSendToReceiver(t)

SpecGetByIDs == InitGetByIDs /\ [][NextGetByIDs]_vars

\* the scheduler runs every goroutine that can take a step: the caller, the
\* goroutine of Partition, and each chunk task
MaxTasks == (MaxKeys + GetBatchSize - 1) \div GetBatchSize

CallerStep == GetByIDsCall \/ DispatchPage \/ DispatchDone

ProducerStep == PartitionStep /\ UNCHANGED <<consVars, handlerVars, getVars, builderVars>>

TaskStep(t) ==
    /\ t \in 1..Len(tasks)
    /\ (TaskBuild(t) \/ TaskLoad(t) \/ TaskSendToReceiver(t))

FairGetByIDs ==
    /\ WF_vars(CallerStep)
    /\ WF_vars(ProducerStep)
    /\ \A t \in 1..MaxTasks : WF_vars(TaskStep(t))

\* the calls followed to their end: the empty list, one chunk, two chunks
FairKeyCounts == {0, 1, GetBatchSize + 1}

InitGetByIDsFair ==
    /\ InitGetByIDs
    /\ Len(args.dbKeys) \in FairKeyCounts
    /\ \A i \in 1..Len(args.dbKeys) : args.dbKeys[i] = Key(i)

SpecGetByIDsFair == InitGetByIDsFair /\ [][NextGetByIDs]_vars /\ FairGetByIDs

\* --------------------------- aws_expression.go: conditions and compilation
\* a value handed to a condition or an update is [S |-> ..], [N |-> ..] or a
\* FromToDate
EQUAL == 1
LT == 2
LE == 3
GT == 4
GE == 5
BETWEEN == 6

FromToDate(from, to) == [FromDate |-> from, ToDate |-> to]
IsFromToDate(value) == "FromDate" \in DOMAIN value

\* expression.Name(name).<mode>(expression.Value(..)..) and
\* expression.Key(name).<mode>(expression.Value(..))
Leaf(mode, name, values) == [mode |-> mode, name |-> name, values |-> values]

createCondition(name, value, operator) ==
    IF IsFromToDate(value)
    THEN IF operator = BETWEEN
            THEN Leaf("between", name, <<[N |-> value.FromDate], [N |-> value.ToDate]>>)
            ELSE Leaf("ge", name, <<[N |-> value.FromDate]>>)
    ELSE CASE operator = EQUAL -> Leaf("equal", name, <<value>>)
           [] operator = LT -> Leaf("lt", name, <<value>>)
           [] operator = LE -> Leaf("le", name, <<value>>)
           [] operator = GT -> Leaf("gt", name, <<value>>)
           [] operator = GE -> Leaf("ge", name, <<value>>)
           [] OTHER -> Leaf("equal", name, <<value>>)

createKeyCondition(name, value, operator) ==
    CASE operator = EQUAL -> Leaf("equal", name, <<value>>)
      [] operator = LT -> Leaf("lt", name, <<value>>)
      [] operator = LE -> Leaf("le", name, <<value>>)
      [] operator = GT -> Leaf("gt", name, <<value>>)
      [] operator = GE -> Leaf("ge", name, <<value>>)
      [] OTHER -> Leaf("equal", name, <<value>>)

WithCondition(expr, name, value, operator) ==
    [expr EXCEPT !.conditionExpression = createCondition(name, value, operator)]

\* mutant: the new condition takes the place of the one there is
AndCondition_Replacing(expr, name, value, operator) ==
    [expr EXCEPT !.conditionExpression = createCondition(name, value, operator)]

AndCondition(expr, name, value, operator) ==
    IF expr.conditionExpression = UnsetBuilder
    THEN WithCondition(expr, name, value, operator)
    ELSE [expr EXCEPT !.conditionExpression =
             [mode |-> "and",
              conditionList |-> <<@, createCondition(name, value, operator)>>]]

OrCondition(expr, name, value, operator) ==
    IF expr.conditionExpression = UnsetBuilder
    THEN WithCondition(expr, name, value, operator)
    ELSE [expr EXCEPT !.conditionExpression =
             [mode |-> "or",
              conditionList |-> <<@, createCondition(name, value, operator)>>]]

WithKeyCondition(expr, name, value, operator) ==
    [expr EXCEPT !.keyCondition = createKeyCondition(name, value, operator)]

\* expression.KeyAnd: the left side must be an equality, the right side no
\* conjunction
KeyAnd(left, right) ==
    IF left.mode # "equal" \/ right.mode = "and"
    THEN [mode |-> "invalid"]
    ELSE [mode |-> "and", conditionList |-> <<left, right>>]

AndKeyCondition(expr, name, value, operator) ==
    IF expr.keyCondition = UnsetBuilder
    THEN WithKeyCondition(expr, name, value, operator)
    ELSE [expr EXCEPT !.keyCondition =
             KeyAnd(@, createKeyCondition(name, value, operator))]

\* mutant: the new SET operation takes the place of the earlier ones
WithUpdateField_Replacing(expr, name, value) ==
    [expr EXCEPT !.updateExpression = <<[name |-> name, value |-> value]>>]

\* both branches of WithUpdateField add one SET operation
WithUpdateField(expr, name, value) ==
    [expr EXCEPT !.updateExpression = Append(@, [name |-> name, value |-> value])]

WithLimit(expr, limit) == [expr EXCEPT !.limit = Ptr(limit)]

WithExlusiveStartingKey(expr, lastEvaluatedKey) ==
    [expr EXCEPT !.exclusiveStartKey = lastEvaluatedKey]

\* the error every failed Build of the expression package is taken for
BuildError == "expression build error"

\* whether a condition or key condition tree builds: an unset or invalid
\* builder and an empty name do not
RECURSIVE TreeBuilds(_)
TreeBuilds(c) ==
    CASE c.mode \in {"unset", "invalid"} -> FALSE
      [] c.mode \in {"and", "or"} ->
            \A k \in 1..Len(c.conditionList) : TreeBuilds(c.conditionList[k])
      [] OTHER -> c.name # ""

UpdateBuilds(u) == Len(u) > 0 /\ \A k \in 1..Len(u) : u[k].name # ""

RECURSIVE TreeNames(_)
TreeNames(c) ==
    IF c.mode \in {"and", "or"}
    THEN UNION {TreeNames(c.conditionList[k]) : k \in 1..Len(c.conditionList)}
    ELSE {c.name}

RECURSIVE TreeValues(_)
TreeValues(c) ==
    IF c.mode \in {"and", "or"}
    THEN UNION {TreeValues(c.conditionList[k]) : k \in 1..Len(c.conditionList)}
    ELSE {c.values[k] : k \in 1..Len(c.values)}

\* expression.Expression{}
ZeroExpression ==
    [Names |-> {}, Values |-> {}, Filter |-> Nil, Condition |-> Nil,
     KeyCondition |-> Nil, Update |-> Nil]

\* expression.NewBuilder() and its With.. calls: the parts set, each nil or a
\* pointer to a builder
NewBuilder == [filter |-> Nil, condition |-> Nil, keyCondition |-> Nil, update |-> Nil]

\* Builder.Build(): the compiled expression, or an error when no part is set or
\* a part does not build
Build(b) ==
    LET trees == {Deref(b[f]) : f \in {f \in {"filter", "condition", "keyCondition"} :
                                          b[f] # Nil}}
        updates == IF b.update # Nil THEN Deref(b.update) ELSE <<>>
    IN IF (trees = {} /\ b.update = Nil)
          \/ (\E c \in trees : ~TreeBuilds(c))
          \/ (b.update # Nil /\ ~UpdateBuilds(updates))
       THEN [expr |-> ZeroExpression, err |-> BuildError]
       ELSE [expr |->
                [Names |-> UNION {TreeNames(c) : c \in trees}
                              \cup {updates[k].name : k \in 1..Len(updates)},
                 Values |-> UNION {TreeValues(c) : c \in trees}
                               \cup {updates[k].value : k \in 1..Len(updates)},
                 Filter |-> b.filter, Condition |-> b.condition,
                 KeyCondition |-> b.keyCondition, Update |-> b.update],
             err |-> NoErr]

\* mutant: the keys are checked ahead of the update fields
BuildUpdateInput_KeysFirst(expr) ==
    IF CreateQueryKeys(expr).err # NoErr
    THEN [input |-> Nil, err |-> CreateQueryKeys(expr).err]
    ELSE IF expr.updateExpression = <<>>
    THEN [input |-> Nil,
          err |-> "their is nothing set to be updated, please use WithUpdateField"]
    ELSE [input |-> Ptr([Key |-> CreateQueryKeys(expr).keys,
                         TableName |-> expr.dynamoDBTable]),
          err |-> NoErr]

BuildUpdateInput(expr) ==
    IF expr.updateExpression = <<>>
    THEN [input |-> Nil,
          err |-> "their is nothing set to be updated, please use WithUpdateField"]
    ELSE LET keys == CreateQueryKeys(expr)
             built == Build([NewBuilder EXCEPT !.update = Ptr(expr.updateExpression)])
         IN IF keys.err # NoErr THEN [input |-> Nil, err |-> keys.err]
            ELSE [input |-> Ptr([ExpressionAttributeNames |-> built.expr.Names,
                                 ExpressionAttributeValues |-> built.expr.Values,
                                 UpdateExpression |-> built.expr.Update,
                                 Key |-> keys.keys,
                                 TableName |-> expr.dynamoDBTable]),
                  err |-> built.err]

BuildQueryInput(expr) ==
    LET b1 == IF expr.conditionExpression # UnsetBuilder
                 THEN [NewBuilder EXCEPT !.filter = Ptr(expr.conditionExpression)]
                 ELSE NewBuilder
        built == Build([b1 EXCEPT !.keyCondition = Ptr(expr.keyCondition)])
    IN IF built.err # NoErr THEN [input |-> Nil, err |-> built.err]
       ELSE [input |->
                Ptr([ExpressionAttributeNames |-> built.expr.Names,
                     ExpressionAttributeValues |-> built.expr.Values,
                     KeyConditionExpression |-> built.expr.KeyCondition,
                     TableName |-> expr.dynamoDBTable,
                     FilterExpression |-> IF expr.conditionExpression # UnsetBuilder
                                             THEN built.expr.Filter ELSE Nil,
                     IndexName |-> IF expr.dynamoDBIndex # ""
                                      THEN Ptr(expr.dynamoDBIndex) ELSE Nil,
                     ScanIndexForward |-> expr.scanIndexForward,
                     Limit |-> IF expr.limit # Nil /\ Deref(expr.limit) >= 1
                                  THEN expr.limit ELSE Nil,
                     ExclusiveStartKey |-> expr.exclusiveStartKey]),
             err |-> NoErr]

\* the ScanInput literal both branches of BuildScanInput assign
ScanInputOf(expr, compiled, filterExpression) ==
    [ExpressionAttributeNames |-> compiled.Names,
     ExpressionAttributeValues |-> compiled.Values,
     FilterExpression |-> filterExpression,
     TableName |-> expr.dynamoDBTable,
     Limit |-> Nil,
     ExclusiveStartKey |-> EmptyMap]

\* mutant: the comparison finds the key condition equal to the zero value
KeyConditionIsZeroCondition_Equal(keyCondition) == TRUE

\* a KeyConditionBuilder is never deeply equal to a ConditionBuilder{}: the
\* values are of different types
KeyConditionIsZeroCondition(keyCondition) == FALSE

\* the errors of both Build calls are dropped
BuildScanInput(expr) ==
    IF expr.dynamoDBTable = ""
    THEN [input |-> Nil, err |-> "missing table-name"]
    ELSE LET input0 == ScanInputOf(expr, ZeroExpression, Nil)
             hasFilter == expr.conditionExpression # UnsetBuilder
             b1 == IF hasFilter
                      THEN [NewBuilder EXCEPT !.filter = Ptr(expr.conditionExpression)]
                      ELSE NewBuilder
             e1 == Build(b1).expr
             input1 == IF hasFilter THEN ScanInputOf(expr, e1, e1.Filter) ELSE input0
             e2 == Build([b1 EXCEPT !.keyCondition = Ptr(expr.keyCondition)]).expr
             input2 == IF ~KeyConditionIsZeroCondition(expr.keyCondition)
                          THEN ScanInputOf(expr, e2, e2.KeyCondition)
                          ELSE input1
             input3 == IF expr.limit # Nil /\ Deref(expr.limit) >= 1
                          THEN [input2 EXCEPT !.Limit = expr.limit] ELSE input2
             input4 == IF MapLen(expr.exclusiveStartKey) > 0
                          THEN [input3 EXCEPT !.ExclusiveStartKey = expr.exclusiveStartKey]
                          ELSE input3
         IN [input |-> Ptr(input4), err |-> NoErr]

\* mutant: the keys are checked ahead of the table name
BuildGetInput_KeysFirst(expr) ==
    IF CreateQueryKeys(expr).err # NoErr
    THEN [input |-> Nil, err |-> CreateQueryKeys(expr).err]
    ELSE IF expr.dynamoDBTable = ""
    THEN [input |-> Nil, err |-> "missing table name"]
    ELSE [input |-> Ptr([TableName |-> expr.dynamoDBTable,
                         Key |-> CreateQueryKeys(expr).keys]),
          err |-> NoErr]

BuildGetInput(expr) ==
    IF expr.dynamoDBTable = ""
    THEN [input |-> Nil, err |-> "missing table name"]
    ELSE LET keys == CreateQueryKeys(expr)
         IN IF keys.err # NoErr THEN [input |-> Nil, err |-> keys.err]
            ELSE [input |-> Ptr([TableName |-> expr.dynamoDBTable, Key |-> keys.keys]),
                  err |-> NoErr]

BuildDeleteInput(expr) ==
    IF expr.dynamoDBTable = ""
    THEN [input |-> Nil, err |-> "missing table name"]
    ELSE LET keys == CreateQueryKeys(expr)
             input == [Key |-> keys.keys, TableName |-> expr.dynamoDBTable,
                       ExpressionAttributeNames |-> {},
                       ExpressionAttributeValues |-> {},
                       ConditionExpression |-> Nil]
             built == Build([NewBuilder EXCEPT
                                !.condition = Ptr(expr.conditionExpression)])
         IN IF keys.err # NoErr THEN [input |-> Nil, err |-> keys.err]
            ELSE IF expr.conditionExpression = UnsetBuilder
            THEN [input |-> Ptr(input), err |-> NoErr]
            ELSE IF built.err # NoErr
            THEN [input |-> Ptr(input), err |-> built.err]
            ELSE [input |-> Ptr([input EXCEPT
                                    !.ExpressionAttributeNames = built.expr.Names,
                                    !.ExpressionAttributeValues = built.expr.Values,
                                    !.ConditionExpression = built.expr.Condition]),
                  err |-> NoErr]

\* ------------------------------------------- the single-request handlers
\* what the transport may answer to a single-item or a page request
TransportError == "fake error"

StoredItem == Marshal(TestBaseModel("n", 1, "s", FALSE)).item

GetItemWithContext(input) ==
    {[out |-> Nil, err |-> TransportError]}
    \cup {[out |-> Ptr([Item |-> item]), err |-> NoErr] :
             item \in {EmptyMap, StoredItem, AlienItem}}

PutItemWithContext(input) == {[err |-> NoErr], [err |-> TransportError]}

UpdateItemWithContext(input) == {[err |-> NoErr], [err |-> TransportError]}

DeleteItemWithContext(input) == {[err |-> NoErr], [err |-> TransportError]}

Pages ==
    {[out |-> Nil, err |-> TransportError]}
    \cup {[out |-> Ptr([Items |-> items, LastEvaluatedKey |-> key]), err |-> NoErr] :
             items \in {<<>>, <<StoredItem>>, <<StoredItem, AlienItem>>},
             key \in {EmptyMap, MapSet(EmptyMap, "partKey", AttrS("p9"))}}

ScanWithContext(input) == Pages

QueryWithContext(input) == Pages

\* the (items, last evaluated key, error) triple of the page handlers
ReturnedPage(list, key, err) == [list |-> list, key |-> key, err |-> err]

\* mutant: the return of an error of the handler's own comes after a call
ReturnEarly_AfterCall(result) ==
    /\ ret' = result
    /\ phase' = "returned"
    /\ calls' = Append(calls, [api |-> "any", input |-> <<>>, res |-> <<>>])

\* the `return .., err` of a handler ahead of its transport call
ReturnEarly(result) ==
    /\ ret' = result
    /\ phase' = "returned"
    /\ calls' = calls

\* the transport call of a handler, and the return that follows it
CallAndReturn(api, input, res, result) ==
    /\ calls' = Append(calls, [api |-> api, input |-> input, res |-> res])
    /\ ret' = result
    /\ phase' = "returned"

\* a nil pointer dereference ends the invocation without a return
Panic ==
    /\ ret' = <<>>
    /\ phase' = "panicked"
    /\ calls' = calls

prepareGetReq(h, name, keys) ==
    IF keys.partitionKey = ""
    THEN [input |-> Nil, err |-> "invalid partition key"]
    ELSE LET dbKeys == IF name \in DOMAIN h.Indexes
                          THEN h.Indexes[name]
                          ELSE [PartitionKey |-> h.TableInfo.PartitionKey,
                                SortKey |-> h.TableInfo.SortKey]
             expr0 == WithPartitionKey(NewExpressionWrapper(h.TableInfo.TableName),
                          dbKeys.PartitionKey, keys.partitionKey)
             expr == IF dbKeys.SortKey # Nil /\ keys.sortKey # Nil
                        THEN WithSortingKey(expr0, Deref(dbKeys.SortKey),
                                 Deref(keys.sortKey))
                        ELSE expr0
         IN BuildGetInput(expr)

GetByID ==
    /\ op = "GetByID"
    /\ phase = "called"
    /\ LET req == prepareGetReq(config, args.index, args.dbKeys)
       IN IF req.err # NoErr
          THEN ReturnEarly(Returned(Nil, req.err))
          ELSE \E res \in GetItemWithContext(Deref(req.input)) :
                 CallAndReturn("GetItem", Deref(req.input), res,
                     IF res.err # NoErr THEN Returned(Nil, res.err)
                     ELSE IF MapLen(Deref(res.out).Item) < 1 THEN Returned(Nil, NoErr)
                     ELSE LET m == Unmarshal(args.input, Deref(res.out).Item)
                          IN Returned(m.mdl, m.err))
    /\ UNCHANGED <<config, op, args>>

AddRecord ==
    /\ op = "AddRecord"
    /\ phase = "called"
    /\ LET put == createPutItem(config, args.in, TRUE, args.createSortKey, 1)
           tabInfo == config.TableInfo
           input == [Item |-> put.item,
                     TableName |-> tabInfo.TableName,
                     ConditionExpression |->
                         "attribute_not_exists(" \o tabInfo.PartitionKey \o ")"]
       IN IF put.err # NoErr
          THEN ReturnEarly(Returned(Nil, put.err))
          ELSE \E res \in PutItemWithContext(input) :
                 CallAndReturn("PutItem", input, res,
                     IF res.err # NoErr THEN Returned(Nil, res.err)
                     ELSE Returned(put.keys, NoErr))
    /\ UNCHANGED <<config, op, args>>

UpdateRecordByID ==
    /\ op = "UpdateRecordByID"
    /\ phase = "called"
    /\ LET tabInfo == config.TableInfo
           dbKeys == args.dbKeys
           m == Marshal(args.in)
           item1 == MapSet(m.item, tabInfo.PartitionKey, AttrS(dbKeys.partitionKey))
           item2 == IF tabInfo.SortKey # Nil
                       THEN MapSet(item1, Deref(tabInfo.SortKey),
                                AttrS(Deref(dbKeys.sortKey)))
                       ELSE item1
           input == [Item |-> item2, TableName |-> tabInfo.TableName]
       IN IF tabInfo.SortKey # Nil /\ dbKeys.sortKey = Nil
          THEN ReturnEarly(Returned(Nil, "missing required sorting key"))
          ELSE IF m.err # NoErr
          THEN ReturnEarly(Returned(Nil, m.err))
          ELSE \E res \in PutItemWithContext(input) :
                 CallAndReturn("PutItem", input, res, Returned(Nil, res.err))
    /\ UNCHANGED <<config, op, args>>

\* the orders in which `for k, v := range data` may visit the map
Orders(data) ==
    {o \in [1..MapLen(data) -> DOMAIN data] :
        \A i, j \in 1..MapLen(data) : o[i] = o[j] => i = j}

RECURSIVE withUpdateFields(_, _, _, _)
withUpdateFields(builder, data, order, k) ==
    IF k > Len(order) THEN builder
    ELSE withUpdateFields(WithUpdateField(builder, order[k], data[order[k]]),
             data, order, k + 1)

Update ==
    /\ op = "Update"
    /\ phase = "called"
    /\ LET tabInfo == config.TableInfo
           b1 == WithPartitionKey(NewExpressionWrapper(tabInfo.TableName),
                     tabInfo.PartitionKey, args.partKey)
           b2 == IF args.sortKey # Nil
                    THEN WithSortingKey(b1, Deref(tabInfo.SortKey), Deref(args.sortKey))
                    ELSE b1
       IN IF tabInfo.SortKey # Nil /\ args.sortKey = Nil
          THEN ReturnEarly(Returned(Nil, "missing required sorting key"))
          ELSE IF args.sortKey # Nil /\ tabInfo.SortKey = Nil
          THEN Panic
          ELSE \E order \in Orders(args.data) :
                 LET updateRequest ==
                         BuildUpdateInput(withUpdateFields(b2, args.data, order, 1))
                 IN IF updateRequest.err # NoErr
                    THEN ReturnEarly(Returned(Nil, updateRequest.err))
                    ELSE \E res \in UpdateItemWithContext(Deref(updateRequest.input)) :
                           CallAndReturn("UpdateItem", Deref(updateRequest.input), res,
                               Returned(Nil, res.err))
    /\ UNCHANGED <<config, op, args>>

DeleteRecordByID ==
    /\ op = "DeleteRecordByID"
    /\ phase = "called"
    /\ LET tabInfo == config.TableInfo
           dbKeys == args.dbKeys
           f0 == IF args.filters = Nil
                    THEN NewExpressionWrapper(tabInfo.TableName)
                    ELSE Deref(args.filters)
           f1 == WithPartitionKey(f0, tabInfo.PartitionKey, dbKeys.partitionKey)
           f2 == IF tabInfo.SortKey # Nil
                    THEN WithSortingKey(f1, Deref(tabInfo.SortKey), Deref(dbKeys.sortKey))
                    ELSE f1
           req == BuildDeleteInput(f2)
       IN IF dbKeys.partitionKey = ""
          THEN ReturnEarly(Returned(Nil, "missing required partition key"))
          ELSE IF tabInfo.SortKey # Nil /\ dbKeys.sortKey = Nil
          THEN ReturnEarly(Returned(Nil, "missing required sort key"))
          ELSE IF req.err # NoErr
          THEN ReturnEarly(Returned(Nil, req.err))
          ELSE \E res \in DeleteItemWithContext(Deref(req.input)) :
                 CallAndReturn("DeleteItem", Deref(req.input), res,
                     Returned(Nil, res.err))
    /\ UNCHANGED <<config, op, args>>

\* the loop of the page handlers over res.Items, from the k-th on
RECURSIVE decodeItems(_, _, _, _)
decodeItems(input, resItems, k, items) ==
    IF k > Len(resItems) THEN [items |-> items, err |-> NoErr]
    ELSE LET mdl == Unmarshal(input, resItems[k])
         IN IF mdl.err # NoErr
            THEN [items |-> <<>>, err |-> mdl.err]
            ELSE decodeItems(input, resItems, k + 1, Append(items, Deref(mdl.mdl)))

\* what a page handler returns for the transport's answer
PageResult(input, res) ==
    IF res.err # NoErr THEN ReturnedPage(<<>>, EmptyMap, res.err)
    ELSE LET dec == decodeItems(input, Deref(res.out).Items, 1, <<>>)
         IN IF dec.err # NoErr
            THEN ReturnedPage(<<>>, EmptyMap, dec.err)
            ELSE ReturnedPage(dec.items, Deref(res.out).LastEvaluatedKey, NoErr)

GetRecordsWithScanFilter ==
    /\ op = "GetRecordsWithScanFilter"
    /\ phase = "called"
    /\ IF args.filters = Nil
       THEN Panic
       ELSE LET scanInput == BuildScanInput(Deref(args.filters))
            IN IF scanInput.err # NoErr
               THEN ReturnEarly(ReturnedPage(<<>>, EmptyMap, scanInput.err))
               ELSE \E res \in ScanWithContext(Deref(scanInput.input)) :
                      CallAndReturn("Scan", Deref(scanInput.input), res,
                          PageResult(args.input, res))
    /\ UNCHANGED <<config, op, args>>

GetRecordsWithQueryFilter ==
    /\ op = "GetRecordsWithQueryFilter"
    /\ phase = "called"
    /\ IF args.filters = Nil
       THEN Panic
       ELSE LET query == BuildQueryInput(Deref(args.filters))
            IN IF query.err # NoErr
               THEN ReturnEarly(ReturnedPage(<<>>, EmptyMap, query.err))
               ELSE \E res \in QueryWithContext(Deref(query.input)) :
                      CallAndReturn("Query", Deref(query.input), res,
                          PageResult(args.input, res))
    /\ UNCHANGED <<config, op, args>>

\* ----------------------------------- the invocations of these handlers
HandlerConfigs ==
    Configs
    \cup {DBConfig("", "", Nil),
          [DBConfig("table", "partKey", Ptr("sortKey")) EXCEPT
              !.Indexes = MapSet(EmptyMap, "idx",
                              [PartitionKey |-> "idxKey", SortKey |-> Nil])]}

SingleKeys ==
    {Key(1)} \cup {BrokenKey(Key(1), d) : d \in {"noPart", "nilSort", "emptySort"}}

SingleRecords ==
    {Rec(1)} \cup {BrokenRec(Rec(1), d) : d \in {"noPart", "noSort", "marshalErr", "zero"}}

\* the field maps handed to Update
UpdateData ==
    {EmptyMap,
     MapSet(EmptyMap, "Age", [N |-> 2]),
     MapSet(MapSet(EmptyMap, "Age", [N |-> 2]), "SKey", [S |-> "x"]),
     MapSet(MapSet(EmptyMap, "Age", [N |-> 2]), "", [S |-> "x"])}

\* the filter builders handed to DeleteRecordByID
DeleteFilters ==
    {Nil,
     Ptr(NewExpressionWrapper("table")),
     Ptr(AndCondition(NewExpressionWrapper("tableName"), "param", [S |-> "132"], LT)),
     Ptr(OrCondition(WithCondition(NewExpressionWrapper("table"), "a", [N |-> 1], GE),
                     "b", FromToDate(1, 2), BETWEEN)),
     Ptr(WithCondition(NewExpressionWrapper("table"), "", [S |-> "1"], EQUAL)),
     Ptr(NewExpressionWrapper(""))}

\* the filter builders handed to the page handlers
PageFilterBases ==
    {NewExpressionWrapper("table"),
     NewExpressionWrapper(""),
     WithKeyCondition(NewExpressionWrapper("table"), "partKey", [S |-> "p1"], EQUAL),
     WithKeyCondition(NewExpressionWrapper("table"), "", [S |-> "p1"], EQUAL),
     AndKeyCondition(WithKeyCondition(NewExpressionWrapper("table"), "partKey",
                                      [S |-> "p1"], EQUAL),
                     "sortKey", [S |-> "s1"], GT),
     AndKeyCondition(WithKeyCondition(NewExpressionWrapper("table"), "partKey",
                                      [S |-> "p1"], LT),
                     "sortKey", [S |-> "s1"], EQUAL)}

PageFilters ==
    {Nil}
    \cup {Ptr(b) : b \in PageFilterBases}
    \cup {Ptr(AndCondition(b, "Age", [N |-> 1], LE)) : b \in PageFilterBases}
    \cup {Ptr(WithCondition(b, "", [N |-> 1], EQUAL)) : b \in PageFilterBases}
    \cup {Ptr(WithLimit(b, l)) : b \in PageFilterBases, l \in {0, 1}}
    \cup {Ptr(WithExlusiveStartingKey(b, MapSet(EmptyMap, "partKey", AttrS("p0")))) :
             b \in PageFilterBases}

SingleMethods ==
    {"GetByID", "AddRecord", "UpdateRecordByID", "Update", "DeleteRecordByID",
     "GetRecordsWithScanFilter", "GetRecordsWithQueryFilter"}

SingleArgsOf(method) ==
    CASE method = "GetByID" ->
            [input : BaseModels, index : {"", "idx"}, dbKeys : SingleKeys]
      [] method = "AddRecord" ->
            [in : SingleRecords, createSortKey : BOOLEAN]
      [] method = "UpdateRecordByID" ->
            [in : SingleRecords, dbKeys : SingleKeys]
      [] method = "Update" ->
            [partKey : {"", "p1"}, sortKey : {Nil, Ptr(""), Ptr("s1")},
             data : UpdateData]
      [] method = "DeleteRecordByID" ->
            [dbKeys : SingleKeys, filters : DeleteFilters]
      [] method \in {"GetRecordsWithScanFilter", "GetRecordsWithQueryFilter"} ->
            [input : BaseModels, filters : PageFilters]

InitSingle ==
    /\ PartitionIdle
    /\ BuilderIdle
    /\ GetByIDsIdle
    /\ config \in HandlerConfigs
    /\ op \in SingleMethods
    /\ args \in SingleArgsOf(op)
    /\ phase = "called"
    /\ calls = <<>>
    /\ ret = <<>>

NextSingle ==
    \/ GetByID /\ UNCHANGED <<partVars, consVars, getVars, builderVars>>
    \/ AddRecord /\ UNCHANGED <<partVars, consVars, getVars, builderVars>>
    \/ UpdateRecordByID /\ UNCHANGED <<partVars, consVars, getVars, builderVars>>
    \/ Update /\ UNCHANGED <<partVars, consVars, getVars, builderVars>>
    \/ DeleteRecordByID /\ UNCHANGED <<partVars, consVars, getVars, builderVars>>
    \/ GetRecordsWithScanFilter /\ UNCHANGED <<partVars, consVars, getVars, builderVars>>
    \/ GetRecordsWithQueryFilter /\ UNCHANGED <<partVars, consVars, getVars, builderVars>>

SpecSingle == InitSingle /\ [][NextSingle]_vars

\* ------------------------------- a caller chaining calls on one wrapper
\* an operator value outside the defined set, as the tests pass it
UndefinedOperator == 10

\* a chained call: the wrapper it leaves, logged with its arguments
Chain(next, call) ==
    /\ wOut = <<>>
    /\ Len(wLog) < MaxCalls
    /\ wrapper' = next
    /\ wLog' = Append(wLog, call)
    /\ UNCHANGED wOut

\* the name the next call passes: one per position in the chain
NextName(prefix) == prefix \o ToString(Len(wLog) + 1)

ConditionCall(method, name, value, operator) ==
    [method |-> method, name |-> name, value |-> value, operator |-> operator]

CallWithCondition ==
    \E a \in {<<NextName("c"), [N |-> 1], LT>>, <<"", [N |-> 1], EQUAL>>} :
        Chain(WithCondition(wrapper, a[1], a[2], a[3]),
              ConditionCall("WithCondition", a[1], a[2], a[3]))

CallAndCondition ==
    Chain(AndCondition(wrapper, NextName("c"), FromToDate(1, 2), BETWEEN),
          ConditionCall("AndCondition", NextName("c"), FromToDate(1, 2), BETWEEN))

CallOrCondition ==
    Chain(OrCondition(wrapper, NextName("c"), [N |-> 1], GE),
          ConditionCall("OrCondition", NextName("c"), [N |-> 1], GE))

CallWithKeyCondition ==
    \E operator \in {EQUAL, UndefinedOperator} :
        Chain(WithKeyCondition(wrapper, NextName("k"), [S |-> "v"], operator),
              ConditionCall("WithKeyCondition", NextName("k"), [S |-> "v"], operator))

CallAndKeyCondition ==
    Chain(AndKeyCondition(wrapper, NextName("k"), [S |-> "v"], GT),
          ConditionCall("AndKeyCondition", NextName("k"), [S |-> "v"], GT))

CallWithUpdateField ==
    Chain(WithUpdateField(wrapper, NextName("u"), [N |-> Len(wLog) + 1]),
          [method |-> "WithUpdateField", name |-> NextName("u"),
           value |-> [N |-> Len(wLog) + 1]])

CallWithPartitionKey ==
    \E a \in {<<"partKey", "p1">>, <<"partKey", "">>, <<"", "p1">>} :
        Chain(WithPartitionKey(wrapper, a[1], a[2]),
              [method |-> "WithPartitionKey", name |-> a[1], value |-> a[2]])

CallWithSortingKey ==
    \E a \in {<<"sortKey", "s1">>, <<"sortKey", "">>} :
        Chain(WithSortingKey(wrapper, a[1], a[2]),
              [method |-> "WithSortingKey", name |-> a[1], value |-> a[2]])

\* a compile operation run on the wrapper, which it leaves as it is
Compile(target, result) ==
    /\ wOut = <<>>
    /\ wOut' = [target |-> target, input |-> result.input, err |-> result.err]
    /\ UNCHANGED <<wrapper, wLog>>

CallBuildGetInput == Compile("BuildGetInput", BuildGetInput(wrapper))

CallBuildDeleteInput == Compile("BuildDeleteInput", BuildDeleteInput(wrapper))

CallBuildUpdateInput == Compile("BuildUpdateInput", BuildUpdateInput(wrapper))

CallBuildQueryInput == Compile("BuildQueryInput", BuildQueryInput(wrapper))

CallBuildScanInput == Compile("BuildScanInput", BuildScanInput(wrapper))

InitBuilder ==
    /\ PartitionIdle
    /\ HandlersIdle
    /\ GetByIDsIdle
    /\ wrapper \in {NewExpressionWrapper("table"), NewExpressionWrapper("")}
    /\ wLog = <<>>
    /\ wOut = <<>>

NextBuilder ==
    \/ CallWithCondition /\ UNCHANGED <<partVars, consVars, handlerVars, getVars>>
    \/ CallAndCondition /\ UNCHANGED <<partVars, consVars, handlerVars, getVars>>
    \/ CallOrCondition /\ UNCHANGED <<partVars, consVars, handlerVars, getVars>>
    \/ CallWithKeyCondition /\ UNCHANGED <<partVars, consVars, handlerVars, getVars>>
    \/ CallAndKeyCondition /\ UNCHANGED <<partVars, consVars, handlerVars, getVars>>
    \/ CallWithUpdateField /\ UNCHANGED <<partVars, consVars, handlerVars, getVars>>
    \/ CallWithPartitionKey /\ UNCHANGED <<partVars, consVars, handlerVars, getVars>>
    \/ CallWithSortingKey /\ UNCHANGED <<partVars, consVars, handlerVars, getVars>>
    \/ CallBuildGetInput /\ UNCHANGED <<partVars, consVars, handlerVars, getVars>>
    \/ CallBuildDeleteInput /\ UNCHANGED <<partVars, consVars, handlerVars, getVars>>
    \/ CallBuildUpdateInput /\ UNCHANGED <<partVars, consVars, handlerVars, getVars>>
    \/ CallBuildQueryInput /\ UNCHANGED <<partVars, consVars, handlerVars, getVars>>
    \/ CallBuildScanInput /\ UNCHANGED <<partVars, consVars, handlerVars, getVars>>

SpecBuilder == InitBuilder /\ [][NextBuilder]_vars

\* ----------------------- a caller preparing a scan: conditions and paging
\* WithLimit and WithExlusiveStartingKey overwrite what the wrapper holds, so
\* the wrapper itself records them
CallWithLimit ==
    /\ wOut = <<>>
    /\ \E limit \in {0, 5} : wrapper' = WithLimit(wrapper, limit)
    /\ UNCHANGED <<wLog, wOut>>

CallWithExlusiveStartingKey ==
    /\ wOut = <<>>
    /\ \E lastEvaluatedKey \in {EmptyMap, MapSet(EmptyMap, "partKey", AttrS("p0"))} :
          wrapper' = WithExlusiveStartingKey(wrapper, lastEvaluatedKey)
    /\ UNCHANGED <<wLog, wOut>>

NextScan ==
    \/ CallWithCondition /\ UNCHANGED <<partVars, consVars, handlerVars, getVars>>
    \/ CallAndCondition /\ UNCHANGED <<partVars, consVars, handlerVars, getVars>>
    \/ CallWithKeyCondition /\ UNCHANGED <<partVars, consVars, handlerVars, getVars>>
    \/ CallAndKeyCondition /\ UNCHANGED <<partVars, consVars, handlerVars, getVars>>
    \/ CallWithLimit /\ UNCHANGED <<partVars, consVars, handlerVars, getVars>>
    \/ CallWithExlusiveStartingKey /\ UNCHANGED <<partVars, consVars, handlerVars, getVars>>
    \/ CallBuildScanInput /\ UNCHANGED <<partVars, consVars, handlerVars, getVars>>

SpecScan == InitBuilder /\ [][NextScan]_vars

\* -------------------------------- several range loops over one channel
MaxReaders == 3
MaxShared == 6

\* mutant: the channel hands every range to all of its readers
ReaderReceive_Broadcast(i) ==
    /\ readers[i].pc = "range"
    /\ \E r \in PartitionOffer :
          readers' = [j \in 1..Len(readers) |->
                         [readers[j] EXCEPT !.received = Append(@, r)]]
    /\ PartitionSent
    /\ UNCHANGED <<cPc, received, lastRecv>>

\* the receive of reader i meeting the goroutine's send
ReaderReceive(i) ==
    /\ readers[i].pc = "range"
    /\ \E r \in PartitionOffer :
          readers' = [readers EXCEPT ![i].received = Append(@, r)]
    /\ PartitionSent
    /\ UNCHANGED <<cPc, received, lastRecv>>

\* the receive of reader i on the closed channel: its loop ends
ReaderSeesClosed(i) ==
    /\ readers[i].pc = "range"
    /\ pagesClosed
    /\ readers' = [readers EXCEPT ![i].pc = "ended"]
    /\ UNCHANGED <<cPc, received, lastRecv, partVars>>

ReaderStep(i) ==
    /\ i \in 1..Len(readers)
    /\ (ReaderReceive(i) \/ ReaderSeesClosed(i))

InitReaders ==
    /\ HandlersIdle
    /\ BuilderIdle
    /\ GetByIDsIdle
    /\ collectionLen \in (0 - NegLen)..MaxShared
    /\ partitionSize \in (0 - NegLen)..MaxShared
    /\ pPc = "call"
    /\ pI = 0
    /\ pagesClosed = FALSE
    /\ cPc = "none"
    /\ received = <<>>
    /\ lastRecv = <<>>
    /\ \E n \in 2..MaxReaders :
          readers = [i \in 1..n |-> [pc |-> "range", received |-> <<>>]]

NextReaders ==
    \/ PartitionCall /\ UNCHANGED <<consVars, handlerVars, getVars, builderVars>>
    \/ PartitionStep /\ UNCHANGED <<consVars, handlerVars, getVars, builderVars>>
    \/ \E i \in 1..Len(readers) :
          ReaderReceive(i) /\ UNCHANGED <<handlerVars, getVars, builderVars>>
    \/ \E i \in 1..Len(readers) :
          ReaderSeesClosed(i) /\ UNCHANGED <<handlerVars, getVars, builderVars>>

SpecReaders == InitReaders /\ [][NextReaders]_vars

\* the scheduler runs the caller of Partition, its goroutine and every reader
FairReaders ==
    /\ WF_vars(PartitionCall /\ UNCHANGED <<consVars, handlerVars, getVars, builderVars>>)
    /\ WF_vars(ProducerStep)
    /\ \A i \in 1..MaxReaders :
          WF_vars(ReaderStep(i) /\ UNCHANGED <<handlerVars, getVars, builderVars>>)

SpecReadersFair == SpecReaders /\ FairReaders

\* ------------------------------------------------ config.go, handler.go
MaxIndexes == 2

InvalidConfigError == "invalid db config, missing mandatory keys"

\* `for _, dbIndex := range c.Indexes`, returning false at the first index
\* without a partition key; the map is visited in an order of its own
RECURSIVE IndexesValid(_, _)
IndexesValid(indexes, left) ==
    IF left = {} THEN TRUE
    ELSE LET name == CHOOSE n \in left : TRUE
         IN IF indexes[name].PartitionKey = "" THEN FALSE
            ELSE IndexesValid(indexes, left \ {name})

\* mutant: the indexes are not looked at
IsValid_TableOnly(c) ==
    ~(c.TableInfo.TableName = "" \/ c.TableInfo.PartitionKey = "")

IsValid(c) ==
    IF c.TableInfo.TableName = "" \/ c.TableInfo.PartitionKey = ""
    THEN FALSE
    ELSE IndexesValid(c.Indexes, DOMAIN c.Indexes)

\* DBConfig.IsValid called on the configuration
CallIsValid ==
    /\ phase = "called"
    /\ op = "IsValid"
    /\ ret' = [valid |-> IsValid(config)]
    /\ phase' = "returned"
    /\ UNCHANGED <<config, op, args, calls>>

\* NewDynamoDB(cfg); session.Must panics when the session cannot be created
NewDynamoDB ==
    /\ phase = "called"
    /\ op = "NewDynamoDB"
    /\ IF ~IsValid(config)
       THEN /\ ret' = [handler |-> Nil, err |-> InvalidConfigError]
            /\ phase' = "returned"
            /\ calls' = calls
       ELSE IF args.session = "error"
       THEN Panic
       ELSE /\ ret' = [handler |-> Ptr([config |-> config]), err |-> NoErr]
            /\ phase' = "returned"
            /\ calls' = calls
    /\ UNCHANGED <<config, op, args>>

IndexNames == {"index" \o ToString(i) : i \in 1..MaxIndexes}

DBPSKeyNamesSet ==
    [PartitionKey : {"", "partKey"}, SortKey : {Nil, Ptr("sortKey")}]

\* every map from some of the index names to key names
IndexMaps ==
    UNION {[names -> DBPSKeyNamesSet] : names \in SUBSET IndexNames}

ValidatedConfigs ==
    {[DBConfig(t, pk, sk) EXCEPT !.Indexes = m] :
        t \in {"", "table"}, pk \in {"", "partKey"},
        sk \in {Nil, Ptr("sortKey")}, m \in IndexMaps}

ConfigMethods == {"IsValid", "NewDynamoDB"}

ConfigArgsOf(method) ==
    IF method = "NewDynamoDB" THEN [session : {"ok", "error"}] ELSE {<<>>}

InitConfig ==
    /\ PartitionIdle
    /\ BuilderIdle
    /\ GetByIDsIdle
    /\ config \in ValidatedConfigs
    /\ op \in ConfigMethods
    /\ args \in ConfigArgsOf(op)
    /\ phase = "called"
    /\ calls = <<>>
    /\ ret = <<>>

NextConfig ==
    \/ CallIsValid /\ UNCHANGED <<partVars, consVars, getVars, builderVars>>
    \/ NewDynamoDB /\ UNCHANGED <<partVars, consVars, getVars, builderVars>>

SpecConfig == InitConfig /\ [][NextConfig]_vars

\* ================================================================ claims

Ceil(n, p) == (n + p - 1) \div p

\* the ranges R received so far are the first Len(R) ranges of the partition of
\* [0, n) into widths of p
RangesInOrder(R, n, p) ==
    \A k \in 1..Len(R) :
        /\ R[k].Low = (k - 1) * p
        /\ 0 <= R[k].Low
        /\ R[k].Low < R[k].High
        /\ R[k].High <= n
        /\ R[k].High - R[k].Low <= p
        /\ k < Len(R) => R[k].High - R[k].Low = p
        /\ k < Len(R) => R[k + 1].Low = R[k].High

\* C7: for n >= 0 and p > 0, Partition(n, p) emits exactly ceil(n/p) ranges, in
\* increasing order, range k starting at k*p, each with 0 <= Low < High <= n and
\* width <= p (only the last may be shorter), covering [0, n) with no gap and
\* no overlap.
C7_PartitionCovers ==
    (collectionLen >= 0 /\ partitionSize > 0) =>
        /\ RangesInOrder(received, collectionLen, partitionSize)
        /\ Len(received) <= Ceil(collectionLen, partitionSize)
        /\ pPc \in {"close", "done"} =>
              /\ Len(received) = Ceil(collectionLen, partitionSize)
              /\ collectionLen > 0 => received[Len(received)].High = collectionLen

C7_Witness ==
    /\ cPc = "ended"
    /\ collectionLen = 29
    /\ partitionSize = 25
    /\ received = <<IdxRange(0, 25), IdxRange(25, 29)>>

\* C8: Partition(n, p) emits no range, and its channel is closed so that a
\* receive yields the zero IdxRange with ok = false, whenever p <= 0 (the
\* channel is closed before Partition returns) and whenever n = 0.
C8_EmptyPartition ==
    (partitionSize <= 0 \/ collectionLen = 0) =>
        /\ received = <<>>
        /\ PartitionOffer = {}
        /\ (partitionSize <= 0 /\ pPc # "call") => (pagesClosed /\ pPc = "done")
        /\ pPc = "done" => pagesClosed
        /\ lastRecv # <<>> => lastRecv = <<ZeroIdxRange, FALSE>>
        /\ cPc = "ended" => lastRecv = <<ZeroIdxRange, FALSE>>

C8_Witness ==
    /\ cPc = "ended"
    /\ partitionSize = 0
    /\ collectionLen = 10
    /\ lastRecv = <<ZeroIdxRange, FALSE>>

\* ---------------------------------------------------------- bulk writes
TableName == config.TableInfo.TableName

\* a record the put loop accepts: it marshals, and each key it lacks may be
\* generated
ValidRecord(rec, createPartKey, createSortKey) ==
    /\ ~rec.withMarshallingErr
    /\ rec.Name # "" \/ createPartKey
    /\ config.TableInfo.SortKey = Nil \/ rec.SKey # "" \/ createSortKey

AllRecordsValid ==
    \A k \in 1..Len(args.records) :
        ValidRecord(args.records[k], op = "BulkAddRecords",
                    op = "BulkAddRecords" /\ args.createSortKey)

\* the put request carries the record: its marshalled fields, and its own
\* partition key value when it has one (a non-empty one otherwise)
PutCarries(request, rec) ==
    LET item == request.PutRequest.Item
        pk == item[config.TableInfo.PartitionKey]
    IN /\ \A f \in {"Name", "Age", "SKey"} \ {config.TableInfo.PartitionKey} :
             item[f] = Marshal(rec).item[f]
       /\ pk # Nil /\ Deref(pk).S # ""
       /\ rec.Name # "" => Deref(pk).S = rec.Name

\* C4: BulkAddRecords and BulkUpdateRecords with n valid records issue exactly
\* one batch-write call, whose put requests are the first min(n, 25) records
\* in input order; when the call returns no error the returned list is
\* records[25:] followed by one decoded record per unprocessed item the
\* provider reported, in order.
C4_BulkWriteFirst25 ==
    (op \in {"BulkAddRecords", "BulkUpdateRecords"} /\ phase = "returned"
        /\ AllRecordsValid) =>
        LET records == args.records
            n == Len(records)
            sent == calls[1].input.RequestItems[TableName]
            excess == IF n > 25 THEN n - 25 ELSE 0
            reported == MapGetSeq(Deref(calls[1].res.out).UnprocessedItems, TableName)
        IN /\ Len(calls) = 1
           /\ calls[1].api = "BatchWriteItem"
           /\ DOMAIN calls[1].input.RequestItems = {TableName}
           /\ Len(sent) = IF n < 25 THEN n ELSE 25
           /\ \A k \in 1..Len(sent) : PutCarries(sent[k], records[k])
           /\ ret.err = NoErr =>
                 /\ Len(ret.list) = excess + Len(reported)
                 /\ \A k \in 1..excess : ret.list[k] = records[25 + k]
                 /\ \A j \in 1..Len(reported) :
                       Unmarshal(args.baseModel, reported[j].PutRequest.Item) =
                           [mdl |-> Ptr(ret.list[excess + j]), err |-> NoErr]

C4_Witness ==
    /\ op = "BulkUpdateRecords"
    /\ phase = "returned"
    /\ AllRecordsValid
    /\ Len(args.records) = 27
    /\ Len(calls[1].input.RequestItems[TableName]) = 25
    /\ ret = Returned(<<Rec(26), Rec(27), Rec(1), Rec(2)>>, NoErr)

BulkInput == IF op = "BulkDeleteRecords" THEN args.dbKeys ELSE args.records

\* the errors the bulk handlers raise on their input, before any call
InputErrors ==
    {"missing required sort key", "missing partition key",
     "missing required partition key", "missing required sorting key",
     "marshalling error"}

\* a delete key the handler must refuse
InvalidDeleteKey(key) ==
    \/ key.partitionKey = ""
    \/ config.TableInfo.SortKey # Nil /\ key.sortKey = Nil

\* C5: a bulk handler that returns an error returns the input list unchanged
\* with it; an error raised on an input record or key (a delete key without a
\* required sort key, say) comes with no batch-write call at all.
C5_BulkErrorReturnsInput ==
    (op \in BulkMethods /\ phase = "returned") =>
        /\ ret.err # NoErr => ret.list = BulkInput
        /\ ret.err \in InputErrors => calls = <<>>
        /\ ret.err \notin InputErrors => Len(calls) = 1
        /\ (op = "BulkDeleteRecords"
              /\ \E k \in 1..Len(args.dbKeys) : InvalidDeleteKey(args.dbKeys[k])) =>
              (ret.err \in InputErrors /\ calls = <<>>)

C5_Witness ==
    /\ op = "BulkDeleteRecords"
    /\ phase = "returned"
    /\ Len(args.dbKeys) = 27
    /\ args.dbKeys[27].sortKey = Nil
    /\ config.TableInfo.SortKey # Nil
    /\ ret = Returned(args.dbKeys, "missing required sort key")
    /\ calls = <<>>

\* the key pair an unprocessed delete entry stands for
KeyPairOf(entry) ==
    LET key == entry.DeleteRequest.Key
        pk == key[config.TableInfo.PartitionKey]
        sk == IF config.TableInfo.SortKey # Nil
                 THEN MapGet(key, Deref(config.TableInfo.SortKey))
                 ELSE Nil
    IN dbPSKeyValues(Deref(pk).S,
                     IF sk # Nil /\ Deref(sk).S # "" THEN Ptr(Deref(sk).S) ELSE Nil)

\* C6 (as claimed): once the batch-write call of BulkDeleteRecords has
\* succeeded, the handler returns a nil error and one key pair per unprocessed
\* delete entry the provider reported, whether or not the table declares a
\* sort key.
C6_BulkDeleteUnprocessed ==
    (op = "BulkDeleteRecords" /\ phase # "called" /\ Len(calls) = 1
        /\ calls[1].res.err = NoErr) =>
        LET reported == MapGetSeq(Deref(calls[1].res.out).UnprocessedItems, TableName)
        IN /\ phase = "returned"
           /\ ret.err = NoErr
           /\ Len(ret.list) = Len(reported)
           /\ \A k \in 1..Len(reported) : ret.list[k] = KeyPairOf(reported[k])

\* what does hold: the same, for a table that declares a sort key
C6_WithSortKeyOnly ==
    config.TableInfo.SortKey # Nil => C6_BulkDeleteUnprocessed


\* ---- GetByIDs
WellFormedKeys == \A i \in 1..Len(args.dbKeys) : args.dbKeys[i].partitionKey # ""

MalformedKeys == \A i \in 1..Len(args.dbKeys) : args.dbKeys[i].partitionKey = ""

\* the transport answered the call with the items of all the keys asked for
FullAnswer(call) ==
    LET keys == call.input.RequestItems[TableName].Keys
    IN /\ call.res.err = NoErr
       /\ MapLen(Deref(call.res.out).UnprocessedKeys) = 0
       /\ MapGetSeq(Deref(call.res.out).Responses, TableName)
             = [k \in 1..Len(keys) |-> ItemOf(config, keys[k])]

\* all the chunk tasks are through with loading, each call fully answered
\* and each item decoded
AllChunksLoaded ==
    /\ Len(tasks) = Ceil(Len(args.dbKeys), GetBatchSize)
    /\ \A t \in 1..Len(tasks) :
          /\ tasks[t].pc \in {"send", "done"}
          /\ tasks[t].err = NoErr
          /\ \A c \in 1..Len(tasks[t].calls) : FullAnswer(tasks[t].calls[c])

\* the record decoded from the item of the i-th key
RecordOfKey(i) == Deref(Unmarshal(args.input, ItemOf(config,
                      buildGetLoop(config, <<args.dbKeys[i]>>, 1, <<>>)[1])).mdl)

\* C1: GetByIDs with N well-formed keys, every batch-get call fully answered,
\* makes one call per chunk of at most 25 keys and returns the N decoded
\* records with a nil error, whatever the order the chunk tasks run in
C1_GetByIDsAllRecords ==
    (op = "GetByIDs" /\ phase = "returned" /\ WellFormedKeys /\ AllChunksLoaded)
        => /\ \A t \in 1..Len(tasks) : Len(tasks[t].calls) = 1
           /\ ret.err = NoErr
           /\ Len(ret.list) = Len(args.dbKeys)
           /\ \A i \in 1..Len(args.dbKeys) :
                 \E j \in 1..Len(ret.list) : ret.list[j] = RecordOfKey(i)

\* with one chunk the statement of C1 holds
C1_SingleChunk ==
    Len(args.dbKeys) <= GetBatchSize => C1_GetByIDsAllRecords

\* C2: when the call or the decoding of a chunk of GetByIDs fails, GetByIDs
\* returns a non-nil error and no records, whatever the order the chunk tasks
\* run in
C2_GetByIDsErrorWins ==
    (op = "GetByIDs" /\ phase = "returned"
        /\ \E t \in 1..Len(tasks) : tasks[t].err # NoErr)
        => ret.err # NoErr /\ ret.list = <<>>

\* with one chunk the statement of C2 holds
C2_SingleChunk ==
    Len(args.dbKeys) <= GetBatchSize => C2_GetByIDsErrorWins

\* C3: GetByIDs with a non-empty list of keys that all have an empty partition
\* key value makes no batch-get call and returns an empty list with a nil error
C3_MalformedKeysNoCall ==
    (op = "GetByIDs" /\ Len(args.dbKeys) > 0 /\ MalformedKeys)
        => /\ \A t \in 1..Len(tasks) : tasks[t].calls = <<>>
           /\ phase = "returned" => ret = Returned(<<>>, NoErr)

\* the request of such a list names the table with no key
C3_EmptyRequest ==
    (op = "GetByIDs" /\ MalformedKeys)
        => \A t \in 1..Len(tasks) : \A c \in 1..Len(tasks[t].calls) :
              tasks[t].calls[c].input.RequestItems[TableName].Keys = <<>>


\* ---- the single-request handlers
\* the errors the handlers and the compile operations raise themselves
OwnErrors ==
    {"invalid partition key", "missing partition key", "missing table name",
     "missing table-name", "marshalling error", "missing required partition key",
     "missing required sorting key", "missing required sort key",
     "their is nothing set to be updated, please use WithUpdateField", BuildError}

\* C9: when GetByID, AddRecord, UpdateRecordByID, Update, DeleteRecordByID,
\* GetRecordsWithScanFilter or GetRecordsWithQueryFilter returns an error of
\* its own validation or request compilation, the invocation has issued no
\* transport call
C9_OwnErrorBeforeTransport ==
    (op \in SingleMethods /\ phase = "returned" /\ ret.err \in OwnErrors)
        => calls = <<>>

\* DeleteRecordByID returned the build error of a filter condition with an
\* empty name, for which BuildDeleteInput hands back a request with the error
C9_Witness ==
    /\ op = "DeleteRecordByID"
    /\ phase = "returned"
    /\ args.dbKeys = Key(1)
    /\ args.filters # Nil
    /\ ret.err = BuildError
    /\ BuildDeleteInput(WithPartitionKey(Deref(args.filters), "partKey", "p1")).input # Nil
    /\ calls = <<>>

\* each of these handlers issues one transport call at most, and returns the
\* transport's error only after the call
C9_OneCallAtMost ==
    op \in SingleMethods
        => /\ Len(calls) <= 1
           /\ (phase = "returned" /\ ret.err = TransportError) => Len(calls) = 1

\* the key values DeleteRecordByID must refuse
DeleteMustFail ==
    \/ args.dbKeys.partitionKey = ""
    \/ /\ config.TableInfo.SortKey # Nil
       /\ (args.dbKeys.sortKey = Nil \/ Deref(args.dbKeys.sortKey) = "")

\* the table is configured and the filter builder, when one is passed, names a
\* table and holds no condition that fails to build
DeleteWellSetUp ==
    /\ config.TableInfo.TableName # ""
    /\ config.TableInfo.PartitionKey # ""
    /\ args.filters # Nil =>
          /\ Deref(args.filters).dynamoDBTable # ""
          /\ Deref(args.filters).conditionExpression # UnsetBuilder
                => TreeBuilds(Deref(args.filters).conditionExpression)

\* the key map of the supplied values
DeleteKeyMap ==
    LET pk == MapSet(EmptyMap, config.TableInfo.PartitionKey,
                  AttrS(args.dbKeys.partitionKey))
    IN IF config.TableInfo.SortKey # Nil
       THEN MapSet(pk, Deref(config.TableInfo.SortKey), AttrS(Deref(args.dbKeys.sortKey)))
       ELSE pk

DeleteOutcome ==
    IF DeleteMustFail
    THEN ret.err # NoErr /\ calls = <<>>
    ELSE /\ Len(calls) = 1
         /\ calls[1].api = "DeleteItem"
         /\ calls[1].input.Key = DeleteKeyMap
         /\ (args.filters # Nil /\ Deref(args.filters).conditionExpression # UnsetBuilder)
               => calls[1].input.ConditionExpression
                     = Ptr(Deref(args.filters).conditionExpression)

\* C10: DeleteRecordByID returns an error and issues no delete call when the
\* partition key value is empty, or the table declares a sort key and the
\* supplied sort key is nil or the empty string; otherwise it issues exactly
\* one delete call whose key map holds the supplied key values, with the
\* caller's filter condition as the delete precondition
C10_DeleteRecordByID ==
    (op = "DeleteRecordByID" /\ phase = "returned" /\ DeleteWellSetUp)
        => DeleteOutcome

\* the statement of C10 holds for every sort key but the empty string
C10_SortKeyNotEmpty ==
    (op = "DeleteRecordByID" /\ phase = "returned" /\ DeleteWellSetUp
        /\ ~(config.TableInfo.SortKey # Nil /\ args.dbKeys.sortKey = Ptr("")))
        => DeleteOutcome

\* with the empty string as sort key the delete call is issued, its key map
\* holding nil under the sort key name
C10_EmptySortKeyCall ==
    (op = "DeleteRecordByID" /\ phase = "returned" /\ DeleteWellSetUp
        /\ config.TableInfo.SortKey # Nil /\ args.dbKeys.partitionKey # ""
        /\ args.dbKeys.sortKey = Ptr(""))
        => /\ Len(calls) = 1
           /\ calls[1].input.Key[Deref(config.TableInfo.SortKey)] = Nil


\* ---- AddRecord
\* the string value an item holds under an attribute name, "" when it holds none
KeyValueIn(item, name) ==
    IF name \in DOMAIN item /\ item[name] # Nil /\ "S" \in DOMAIN Deref(item[name])
    THEN Deref(item[name]).S
    ELSE ""

RecordLacksSortKey == GetPartSortKey(args.in).sortKey = Nil

\* what C11 says of the puts and of the refusal
AddRecordPuts ==
    LET tabInfo == config.TableInfo
        own == GetPartSortKey(args.in)
    IN /\ \A c \in 1..Len(calls) :
             LET input == calls[c].input
             IN /\ calls[c].api = "PutItem"
                /\ input.ConditionExpression
                      = "attribute_not_exists(" \o tabInfo.PartitionKey \o ")"
                /\ KeyValueIn(input.Item, tabInfo.PartitionKey) # ""
                /\ own.partitionKey # ""
                      => KeyValueIn(input.Item, tabInfo.PartitionKey) = own.partitionKey
                /\ (tabInfo.SortKey # Nil /\ own.sortKey # Nil)
                      => KeyValueIn(input.Item, Deref(tabInfo.SortKey)) = Deref(own.sortKey)
                /\ (tabInfo.SortKey # Nil /\ own.sortKey = Nil)
                      => /\ args.createSortKey
                         /\ KeyValueIn(input.Item, Deref(tabInfo.SortKey)) # ""
       /\ (phase = "returned" /\ tabInfo.SortKey # Nil /\ RecordLacksSortKey
              /\ ~args.createSortKey)
             => ret.err # NoErr /\ calls = <<>>

\* the key values AddRecord wrote into the item of its put
WrittenKeys ==
    LET tabInfo == config.TableInfo
        item == calls[1].input.Item
    IN dbPSKeyValues(KeyValueIn(item, tabInfo.PartitionKey),
                     IF tabInfo.SortKey # Nil
                        THEN Ptr(KeyValueIn(item, Deref(tabInfo.SortKey)))
                        ELSE Nil)

AddRecordSucceeded ==
    op = "AddRecord" /\ phase = "returned" /\ ret.err = NoErr

\* C11 as stated: every put of AddRecord carries attribute_not_exists(<partition
\* key name>) and a non-empty partition key (the record's own, else a generated
\* one), and the record's or a generated sort key when the table declares one;
\* without a sort key and without createSortKey it returns an error and puts
\* nothing; on success the returned keys equal the key values written
C11_AddRecordAsStated ==
    op = "AddRecord"
        => /\ AddRecordPuts
           /\ AddRecordSucceeded => Deref(ret.list) = WrittenKeys

\* C11, amended: as stated, but the returned sort key equals the written one
\* when the table declares a sort key; for a table without sort key none is
\* written and the returned sort key is the record's own
C11_AddRecord ==
    op = "AddRecord"
        => /\ AddRecordPuts
           /\ AddRecordSucceeded
                 => /\ Len(calls) = 1
                    /\ Deref(ret.list).partitionKey = WrittenKeys.partitionKey
                    /\ config.TableInfo.SortKey # Nil
                          => Deref(ret.list).sortKey = WrittenKeys.sortKey
                    /\ config.TableInfo.SortKey = Nil
                          => Deref(ret.list).sortKey = GetPartSortKey(args.in).sortKey

\* a record without key values was added to a table with a sort key, both keys
\* generated
C11_Witness ==
    /\ AddRecordSucceeded
    /\ args.in = ZeroModel
    /\ args.createSortKey
    /\ config.TableInfo.SortKey # Nil
    /\ Len(calls) = 1
    /\ Deref(ret.list) = dbPSKeyValues(NewUUID(1), Ptr(NewUUID(2)))


\* ---- key generation of the bulk writes
\* one of the first 25 records has an empty partition key
LacksPartitionKey ==
    \E k \in 1..Min(25, Len(args.records)) :
        GetPartSortKey(args.records[k]).partitionKey = ""

\* one of the first 25 records lacks a sort key the table declares
LacksDeclaredSortKey ==
    /\ config.TableInfo.SortKey # Nil
    /\ \E k \in 1..Min(25, Len(args.records)) :
          GetPartSortKey(args.records[k]).sortKey = Nil

\* C12: BulkUpdateRecords generates no key values: when one of the first 25
\* records has an empty partition key or lacks a sort key the table declares,
\* it returns an error and issues no batch-write call; BulkAddRecords handed a
\* record with an empty partition key generates a non-empty one (and a sort key
\* when createSortKey is true) and issues the batch-write call, with no error of
\* its own
C12_UpdateGeneratesNoKeys ==
    /\ (op = "BulkUpdateRecords" /\ phase = "returned"
           /\ (LacksPartitionKey \/ LacksDeclaredSortKey))
          => ret.err # NoErr /\ calls = <<>>
    /\ (op = "BulkAddRecords" /\ phase = "returned" /\ LacksPartitionKey
           /\ AllRecordsValid)
          => /\ Len(calls) = 1
             /\ ret.err \notin {"missing required partition key",
                                "missing required sorting key", "marshalling error"}
             /\ LET sent == calls[1].input.RequestItems[TableName]
                IN \A k \in 1..Len(sent) :
                      /\ KeyValueIn(sent[k].PutRequest.Item,
                                    config.TableInfo.PartitionKey) # ""
                      /\ config.TableInfo.SortKey # Nil
                            => KeyValueIn(sent[k].PutRequest.Item,
                                          Deref(config.TableInfo.SortKey)) # ""

\* BulkUpdateRecords refused a list whose first record has no partition key
C12_Witness ==
    /\ op = "BulkUpdateRecords"
    /\ phase = "returned"
    /\ Len(args.records) > 1
    /\ args.records[1] = BrokenRec(Rec(1), "noPart")
    /\ ret = Returned(args.records, "missing required partition key")
    /\ calls = <<>>

\* BulkAddRecords sent that list, the first put holding a generated key
C12_AddGenerates ==
    /\ op = "BulkAddRecords"
    /\ phase = "returned"
    /\ Len(args.records) > 1
    /\ args.records[1] = BrokenRec(Rec(1), "noPart")
    /\ Len(calls) = 1
    /\ KeyValueIn(calls[1].input.RequestItems[TableName][1].PutRequest.Item,
                  config.TableInfo.PartitionKey) = NewUUID(1)
    /\ ret.err = NoErr


\* ---- the expression wrapper
\* the comparisons a condition is made of
RECURSIVE SubTerms(_)
SubTerms(c) ==
    IF c.mode = "unset" THEN {}
    ELSE IF c.mode \in {"and", "or"}
    THEN UNION {SubTerms(c.conditionList[k]) : k \in 1..Len(c.conditionList)}
    ELSE {c}

\* what the step calls on the wrapper, when it is a chained call
ThisCall == wLog'[Len(wLog')]

Chained(methods) ==
    /\ Len(wLog') = Len(wLog) + 1
    /\ ThisCall.method \in methods

ConditionOf(call) == createCondition(call.name, call.value, call.operator)

\* an AndCondition / OrCondition call on an empty slot does what WithCondition
\* does; on a filled slot it sets (previous AND new) or (previous OR new)
AndOrStep ==
    Chained({"AndCondition", "OrCondition"}) =>
        IF wrapper.conditionExpression = UnsetBuilder
        THEN /\ wrapper' = WithCondition(wrapper, ThisCall.name, ThisCall.value,
                               ThisCall.operator)
             /\ BuildQueryInput(wrapper') =
                   BuildQueryInput(WithCondition(wrapper, ThisCall.name,
                                       ThisCall.value, ThisCall.operator))
        ELSE /\ wrapper'.conditionExpression =
                   [mode |-> IF ThisCall.method = "AndCondition" THEN "and" ELSE "or",
                    conditionList |-> <<wrapper.conditionExpression,
                                        ConditionOf(ThisCall)>>]
             /\ SubTerms(wrapper.conditionExpression)
                   \subseteq SubTerms(wrapper'.conditionExpression)

\* the conditions of the chain's AndCondition / OrCondition calls
AndOrConditions ==
    {ConditionOf(wLog[k]) :
        k \in {k \in 1..Len(wLog) : wLog[k].method \in {"AndCondition", "OrCondition"}}}

NoWithConditionCall == \A k \in 1..Len(wLog) : wLog[k].method # "WithCondition"

\* after AndCondition / OrCondition calls only, a compiled filter or delete
\* precondition holds the condition of each of them
CompiledHoldsAll ==
    (wOut # <<>> /\ wOut.err = NoErr /\ NoWithConditionCall /\ AndOrConditions # {}) =>
        /\ wOut.target = "BuildQueryInput"
              => /\ Deref(wOut.input).FilterExpression # Nil
                 /\ AndOrConditions
                       \subseteq SubTerms(Deref(Deref(wOut.input).FilterExpression))
        /\ wOut.target = "BuildDeleteInput"
              => /\ Deref(wOut.input).ConditionExpression # Nil
                 /\ AndOrConditions
                       \subseteq SubTerms(Deref(Deref(wOut.input).ConditionExpression))

\* C13: in a sequence of AndCondition / OrCondition calls, a call on an empty
\* filter slot leaves the builder as WithCondition with the same arguments
\* would (same compiled output), every later call sets the slot to (previous
\* AND new) or (previous OR new), and each earlier condition stays a sub-term
\* of the compiled filter
C13_AndOrCondition == [][AndOrStep]_vars /\ [](CompiledHoldsAll)

\* a delete request compiled after AndCondition, OrCondition: its precondition
\* is (c1 OR c2)
C13_Witness ==
    /\ Len(wLog) = 3
    /\ wLog[1].method = "AndCondition"
    /\ wLog[2].method = "OrCondition"
    /\ wLog[3].method = "WithPartitionKey"
    /\ wOut # <<>>
    /\ wOut.target = "BuildDeleteInput"
    /\ wOut.err = NoErr
    /\ Deref(wOut.input).ConditionExpression =
          Ptr([mode |-> "or",
               conditionList |-> <<ConditionOf(wLog[1]), ConditionOf(wLog[2])>>])


\* the (name, value) pairs of the chain's WithUpdateField calls
UpdateCalls ==
    {[name |-> wLog[k].name, value |-> wLog[k].value] :
        k \in {k \in 1..Len(wLog) : wLog[k].method = "WithUpdateField"}}

\* C14: after k >= 1 WithUpdateField calls with distinct names, the update
\* clause BuildUpdateInput compiles sets all k fields to their given values: a
\* later call adds its field and removes or replaces none
C14_UpdateFieldsAccumulate ==
    (wOut # <<>> /\ wOut.target = "BuildUpdateInput" /\ wOut.err = NoErr) =>
        LET clause == Deref(Deref(wOut.input).UpdateExpression)
        IN /\ UpdateCalls # {}
           /\ Len(clause) = Cardinality(UpdateCalls)
           /\ {clause[k] : k \in 1..Len(clause)} = UpdateCalls
           /\ Deref(wOut.input).ExpressionAttributeNames
                 = {c.name : c \in UpdateCalls}
           /\ Deref(wOut.input).ExpressionAttributeValues
                 = {c.value : c \in UpdateCalls}

\* an update request compiled after WithPartitionKey and two WithUpdateField
\* calls
C14_Witness ==
    /\ Len(wLog) = 3
    /\ wLog[1].method = "WithPartitionKey"
    /\ wLog[2].method = "WithUpdateField"
    /\ wLog[3].method = "WithUpdateField"
    /\ wOut # <<>>
    /\ wOut.target = "BuildUpdateInput"
    /\ wOut.err = NoErr
    /\ Deref(Deref(wOut.input).UpdateExpression)
          = <<[name |-> "u2", value |-> [N |-> 2]], [name |-> "u3", value |-> [N |-> 3]]>>

\* the update request of the Update handler sets every field of its data map
C14_UpdateHandlerSetsAll ==
    (op = "Update" /\ Len(calls) = 1) =>
        LET clause == Deref(calls[1].input.UpdateExpression)
        IN {clause[k] : k \in 1..Len(clause)}
              = {[name |-> f, value |-> args.data[f]] : f \in DOMAIN args.data}


\* the chain's calls of a method, as positions in the log
CallsOf(method) == {k \in 1..Len(wLog) : wLog[k].method = method}

Latest(positions) == CHOOSE k \in positions : \A j \in positions : j <= k

\* the chain has left the wrapper without a partition key name, or without a
\* partition key value: the name is that of the latest WithPartitionKey call,
\* the value that of the latest call that passed a non-empty one
PartitionKeyMissing ==
    \/ CallsOf("WithPartitionKey") = {}
    \/ wLog[Latest(CallsOf("WithPartitionKey"))].name = ""
    \/ \A k \in CallsOf("WithPartitionKey") : wLog[k].value = ""

\* C15: BuildUpdateInput returns an error and a nil request when no
\* WithUpdateField call was made, keys set or not; it returns the missing
\* partition key error and a nil request when fields are set and the partition
\* key name or value is missing; filter conditions change neither outcome
C15_BuildUpdateInputErrors ==
    (wOut # <<>> /\ wOut.target = "BuildUpdateInput") =>
        /\ CallsOf("WithUpdateField") = {}
              => /\ wOut.input = Nil
                 /\ wOut.err
                       = "their is nothing set to be updated, please use WithUpdateField"
        /\ (CallsOf("WithUpdateField") # {} /\ PartitionKeyMissing)
              => wOut.input = Nil /\ wOut.err = "missing partition key"
        /\ [input |-> wOut.input, err |-> wOut.err]
              = BuildUpdateInput([wrapper EXCEPT !.conditionExpression = UnsetBuilder])

\* BuildUpdateInput refused a wrapper with a filter condition and both keys
\* set, no update field
C15_Witness ==
    /\ Len(wLog) = 3
    /\ wLog[1].method = "WithPartitionKey" /\ wLog[1].name # "" /\ wLog[1].value # ""
    /\ wLog[2].method = "WithSortingKey"
    /\ wLog[3].method = "OrCondition"
    /\ wOut # <<>>
    /\ wOut.target = "BuildUpdateInput"
    /\ wOut.input = Nil
    /\ wOut.err = "their is nothing set to be updated, please use WithUpdateField"

\* BuildUpdateInput refused a wrapper with an update field and no partition key
C15_MissingKey ==
    /\ CallsOf("WithUpdateField") # {}
    /\ CallsOf("WithCondition") # {}
    /\ wOut # <<>>
    /\ wOut.target = "BuildUpdateInput"
    /\ wOut.input = Nil
    /\ wOut.err = "missing partition key"


\* the chain has set a filter condition that does not build
ConditionFailsToBuild ==
    /\ wrapper.conditionExpression # UnsetBuilder
    /\ ~TreeBuilds(wrapper.conditionExpression)

\* what C16 says of the refusals of BuildGetInput, BuildDeleteInput and
\* BuildScanInput
CompileRefusals ==
    /\ (wOut.target \in {"BuildGetInput", "BuildDeleteInput"}
           /\ wrapper.dynamoDBTable = "")
          => wOut.input = Nil /\ wOut.err = "missing table name"
    /\ (wOut.target \in {"BuildGetInput", "BuildDeleteInput"}
           /\ wrapper.dynamoDBTable # "" /\ PartitionKeyMissing)
          => wOut.input = Nil /\ wOut.err = "missing partition key"
    /\ (wOut.target = "BuildScanInput" /\ wrapper.dynamoDBTable = "")
          => wOut.input = Nil /\ wOut.err # NoErr

CompileRefused ==
    \/ wrapper.dynamoDBTable = ""
    \/ wOut.target \in {"BuildGetInput", "BuildDeleteInput"} /\ PartitionKeyMissing

CompileAccepted ==
    /\ wOut.input # Nil
    /\ Deref(wOut.input).TableName = wrapper.dynamoDBTable
    /\ wOut.err = NoErr

\* C16 as stated: BuildGetInput and BuildDeleteInput return a nil request and
\* an error when the table name is empty (checked first), the partition key
\* name is empty or no non-empty partition key value was set; BuildScanInput
\* does when the table name is empty; in all other cases they return a request
\* carrying the table name and a nil error
C16_CompileAsStated ==
    (wOut # <<>> /\ wOut.target \in {"BuildGetInput", "BuildDeleteInput", "BuildScanInput"})
        => /\ CompileRefusals
           /\ ~CompileRefused => CompileAccepted

\* C16, amended: as stated, except that BuildDeleteInput, when table name and
\* partition key are set and the filter condition does not build, returns the
\* build error
C16_Compile ==
    (wOut # <<>> /\ wOut.target \in {"BuildGetInput", "BuildDeleteInput", "BuildScanInput"})
        => /\ CompileRefusals
           /\ (~CompileRefused
                  /\ ~(wOut.target = "BuildDeleteInput" /\ ConditionFailsToBuild))
                 => CompileAccepted
           /\ (~CompileRefused /\ wOut.target = "BuildDeleteInput"
                  /\ ConditionFailsToBuild)
                 => wOut.err = BuildError

\* BuildDeleteInput refused a wrapper without table name and without partition
\* key value, for the table name
C16_Witness ==
    /\ wrapper.dynamoDBTable = ""
    /\ Len(wLog) = 1
    /\ wLog[1] = [method |-> "WithPartitionKey", name |-> "partKey", value |-> ""]
    /\ wOut # <<>>
    /\ wOut.target = "BuildDeleteInput"
    /\ wOut.input = Nil
    /\ wOut.err = "missing table name"


\* the chain has set a sort key name / a non-empty sort key value
SortKeyNamed ==
    /\ CallsOf("WithSortingKey") # {}
    /\ wLog[Latest(CallsOf("WithSortingKey"))].name # ""

SortKeyValued == \E k \in CallsOf("WithSortingKey") : wLog[k].value # ""

\* a request with a key map was compiled
KeyMapCompiled ==
    /\ wOut # <<>>
    /\ wOut.target \in {"BuildGetInput", "BuildDeleteInput", "BuildUpdateInput"}
    /\ wOut.input # Nil

\* C17: the key map CreateQueryKeys compiles holds a sort key entry if and only
\* if a sort key name and a non-empty sort key value were set; after
\* WithSortingKey(name, "") on a fresh builder it holds the partition key only
C17_SortKeyEntry ==
    KeyMapCompiled =>
        LET keys == Deref(wOut.input).Key
        IN /\ (SortKeyNamed /\ SortKeyValued) <=> ("sortKey" \in DOMAIN keys)
           /\ ~(SortKeyNamed /\ SortKeyValued)
                 => DOMAIN keys = {wrapper.partitionKeyName}

\* what the code does: the entry is there whenever a sort key name was set, and
\* holds nil when no non-empty value was
C17_EntryWheneverNamed ==
    KeyMapCompiled =>
        LET keys == Deref(wOut.input).Key
        IN /\ SortKeyNamed <=> ("sortKey" \in DOMAIN keys)
           /\ (SortKeyNamed /\ ~SortKeyValued) => keys["sortKey"] = Nil
           /\ (SortKeyNamed /\ SortKeyValued) => keys["sortKey"] = AttrS("s1")


\* BuildScanInput compiled a wrapper with a table name and a filter condition
\* that builds, no key condition call made
ScanWithFilterOnly ==
    /\ wOut # <<>>
    /\ wOut.target = "BuildScanInput"
    /\ wrapper.dynamoDBTable # ""
    /\ CallsOf("WithCondition") \cup CallsOf("AndCondition") \cup CallsOf("OrCondition")
          # {}
    /\ TreeBuilds(wrapper.conditionExpression)
    /\ CallsOf("WithKeyCondition") \cup CallsOf("AndKeyCondition") = {}

\* C18: BuildScanInput on a builder with a table name and a filter condition,
\* no key condition, gives a scan request whose filter position holds the
\* compiled filter condition, with its attribute names and values
C18_ScanKeepsFilter ==
    ScanWithFilterOnly =>
        /\ wOut.err = NoErr
        /\ Deref(wOut.input).FilterExpression = Ptr(wrapper.conditionExpression)
        /\ Deref(wOut.input).ExpressionAttributeNames
              = TreeNames(wrapper.conditionExpression)
        /\ Deref(wOut.input).ExpressionAttributeValues
              = TreeValues(wrapper.conditionExpression)

\* what the code does: the request names the table and holds no filter
C18_FilterLost ==
    ScanWithFilterOnly =>
        /\ wOut.err = NoErr
        /\ Deref(wOut.input).TableName = wrapper.dynamoDBTable
        /\ Deref(wOut.input).FilterExpression = Nil
        /\ Deref(wOut.input).ExpressionAttributeNames = {}
        /\ Deref(wOut.input).ExpressionAttributeValues = {}


DefinedKeyOperators == {EQUAL, LT, LE, GT, GE}

\* a key condition call was made with an operator outside the defined set
UndefinedKeyOperatorUsed ==
    \E i \in CallsOf("WithKeyCondition") \cup CallsOf("AndKeyCondition") :
        wLog[i].operator \notin DefinedKeyOperators

\* C19: BuildQueryInput returns an error whenever a key condition was added
\* with an operator outside the defined operator set
C19_UndefinedKeyOperatorErrors ==
    (/\ wOut # <<>>
     /\ wOut.target = "BuildQueryInput"
     /\ UndefinedKeyOperatorUsed)
        => wOut.err # NoErr

\* what the code does: the undefined operator alone compiles as an equality
C19_CompiledAsEqual ==
    (/\ wOut # <<>>
     /\ wOut.target = "BuildQueryInput"
     /\ wrapper.dynamoDBTable # ""
     /\ Len(wLog) = 1
     /\ UndefinedKeyOperatorUsed)
        => /\ wOut.err = NoErr
           /\ Deref(wOut.input).KeyConditionExpression
                 = Ptr(Leaf("equal", wLog[1].name, <<wLog[1].value>>))


\* the configuration names its table, its partition key and the partition
\* key of every index
MandatoryKeysPresent ==
    /\ config.TableInfo.TableName # ""
    /\ config.TableInfo.PartitionKey # ""
    /\ \A name \in DOMAIN config.Indexes : config.Indexes[name].PartitionKey # ""

\* C20: IsValid is true exactly when the table name, the table partition key
\* and every index partition key are non-empty; NewDynamoDB returns no handler
\* and the one validation error for every invalid configuration
C20_IsValidAndNewDynamoDB ==
    (phase = "returned" /\ op \in ConfigMethods) =>
        /\ op = "IsValid" => (ret.valid <=> MandatoryKeysPresent)
        /\ (op = "NewDynamoDB" /\ ~MandatoryKeysPresent) =>
              /\ ret.handler = Nil
              /\ ret.err = InvalidConfigError

\* NewDynamoDB refused a configuration whose table is complete and whose only
\* defect is an index that has a sort key but no partition key
C20_Witness ==
    /\ phase = "returned"
    /\ op = "NewDynamoDB"
    /\ config.TableInfo.TableName # ""
    /\ config.TableInfo.PartitionKey # ""
    /\ \E name \in DOMAIN config.Indexes :
          /\ config.Indexes[name].PartitionKey = ""
          /\ config.Indexes[name].SortKey # Nil
    /\ ret.handler = Nil
    /\ ret.err = InvalidConfigError

\* IsValid accepted a configuration with indexes and without table sort key
C20_AcceptedWithIndexes ==
    /\ phase = "returned"
    /\ op = "IsValid"
    /\ config.TableInfo.SortKey = Nil
    /\ MapLen(config.Indexes) = MaxIndexes
    /\ ret.valid


\* ------------------------------------------------- GetByIDs, its goroutines
Dispatched(t) == t <= Len(tasks)

TaskDone(t) == t <= Len(tasks) /\ tasks[t].pc = "done"

\* C21: every chunk task GetByIDs dispatched eventually completes its send on
\* the result channel and terminates, also after the aggregator has returned
C21_TasksTerminate ==
    \A t \in 1..MaxTasks : Dispatched(t) ~> TaskDone(t)

\* C25: GetByIDs returns for every key list, the empty one included; for the
\* empty list it returns an empty record list and a nil error
C25_GetByIDsReturns ==
    /\ <>(phase = "returned")
    /\ [](phase = "returned" /\ Len(args.dbKeys) = 0
             => ret = Returned(<<>>, NoErr))

\* what the code does with the empty list: no task is dispatched and the
\* caller stays at its receive
C25_EmptyListNeverReturns ==
    Len(args.dbKeys) = 0 => (phase # "returned" /\ tasks = <<>>)

\* with one key at least, the call returns
C25_ReturnsWithKeys ==
    Len(args.dbKeys) > 0 ~> phase = "returned"

\* every dispatched task has its message ready or sent, none with an error
NoTaskReportsError ==
    \A t \in 1..Len(tasks) :
        /\ tasks[t].pc \in {"send", "done"}
        /\ tasks[t].err = NoErr

\* the messages the caller has received: one per task whose send completed
Receives == Cardinality({t \in 1..Len(tasks) : tasks[t].pc = "done"})

\* C22: when no chunk task reports an error, the aggregator has received one
\* message from each dispatched chunk task when it returns
C22_OneReceivePerChunk ==
    (gPc = "returned" /\ NoTaskReportsError) =>
        /\ Len(tasks) = Ceil(Len(args.dbKeys), GetBatchSize)
        /\ Receives = Len(tasks)

\* what the code does: it returns on its first receive
C22_ReturnsOnFirstReceive ==
    gPc = "returned" => Receives = 1

\* C23: the result channel GetByIDs makes has a capacity equal to the number
\* of chunk tasks, ceil(N/25) for N keys
C23_ChannelCapacity ==
    (op = "GetByIDs" /\ gPc \notin {"idle", "start"}) =>
        chCap = Ceil(Len(args.dbKeys), GetBatchSize)

\* what the code does: the channel has no slot, for any number of keys
C23_NoCapacity ==
    op = "GetByIDs" => chCap = 0

\* ------------------------------------------------ one chunk task (loadPage)
\* the unprocessed keys an answered call reports
UnprocessedOf(call) ==
    IF call.res.err # NoErr THEN EmptyMap ELSE Deref(call.res.out).UnprocessedKeys

\* the items an answered call returns for the table
ItemsOf(call) ==
    IF call.res.err # NoErr THEN <<>>
    ELSE MapGetSeq(Deref(call.res.out).Responses, TableName)

\* the positions of the items the codec refuses
Refused(items) ==
    {k \in 1..Len(items) : Unmarshal(args.input, items[k]).err # NoErr}

FirstOf(positions) == CHOOSE k \in positions : \A j \in positions : k <= j

\* the records of the items up to the first the codec refuses
DecodedOf(call) ==
    LET items == ItemsOf(call)
        n == IF Refused(items) = {} THEN Len(items) ELSE FirstOf(Refused(items)) - 1
    IN [k \in 1..n |-> Deref(Unmarshal(args.input, items[k]).mdl)]

\* the failure of a call: of the transport, else of the codec, else none
FailureOf(call) ==
    IF call.res.err # NoErr THEN call.res.err
    ELSE IF Refused(ItemsOf(call)) # {}
    THEN Unmarshal(args.input, ItemsOf(call)[FirstOf(Refused(ItemsOf(call)))]).err
    ELSE NoErr

RECURSIVE DecodedOver(_, _)
DecodedOver(rounds, k) ==
    IF k > Len(rounds) THEN <<>>
    ELSE DecodedOf(rounds[k]) \o DecodedOver(rounds, k + 1)

\* a call after which the task goes on: it succeeded and left keys unprocessed
GoesOn(call) == FailureOf(call) = NoErr /\ MapLen(UnprocessedOf(call)) > 0

TaskFollowsUnprocessed(task) ==
    LET rounds == task.calls
    IN /\ \A k \in 1..Len(rounds) :
              /\ k = 1 => rounds[k].input =
                            Deref(buildGetRequests(config, Slice(args.dbKeys, task.page)))
              /\ k > 1 => rounds[k].input = [RequestItems |-> UnprocessedOf(rounds[k - 1])]
              /\ k < Len(rounds) => GoesOn(rounds[k])
       /\ (task.pc = "load" /\ Len(rounds) > 0) =>
              /\ GoesOn(rounds[Len(rounds)])
              /\ task.req = Ptr([RequestItems |-> UnprocessedOf(rounds[Len(rounds)])])
       /\ task.pc \in {"send", "done"} =>
              /\ Len(rounds) >= 1
              /\ ~GoesOn(rounds[Len(rounds)])
              /\ Message(task) = [Records |-> DecodedOver(rounds, 1),
                                  Err |-> FailureOf(rounds[Len(rounds)])]

\* C24: a chunk task asks again for exactly the unprocessed keys of each
\* answer until an answer reports none or a call or a decoding fails; its one
\* message then holds the records decoded over all rounds, in order, and the
\* first failure (or nil)
C24_UnprocessedResubmitted ==
    \A t \in 1..Len(tasks) : TaskFollowsUnprocessed(tasks[t])

\* a task that needed three rounds and decoded records in each of them
C24_Witness ==
    \E t \in 1..Len(tasks) :
        /\ tasks[t].pc = "done"
        /\ Len(tasks[t].calls) = 3
        /\ \A k \in 1..3 : Len(DecodedOf(tasks[t].calls[k])) > 0
        /\ tasks[t].err = NoErr
        /\ Len(tasks[t].records) = tasks[t].page.High - tasks[t].page.Low

\* a task whose second round failed sends the records of the first round
\* together with the failure
C24_FailureAfterRecords ==
    \E t \in 1..Len(tasks) :
        /\ tasks[t].pc = "send"
        /\ Len(tasks[t].calls) = 2
        /\ tasks[t].err # NoErr
        /\ Len(tasks[t].records) > 0

\* ------------------------------------- several readers of one Partition
\* the ranges delivered so far, each with the reader that took it
Taken ==
    UNION {{<<i, k>> : k \in 1..Len(readers[i].received)} : i \in 1..Len(readers)}

RangeOf(d) == readers[d[1]].received[d[2]]

\* the sends the goroutine has completed
SentCount ==
    pI + (IF pPc \in {"close", "done"} /\ partitionSize > 0
             /\ HasLeftOver(collectionLen, partitionSize)
          THEN 1 ELSE 0)

\* every range sent was taken by exactly one reader
EachRangeOnce ==
    /\ Cardinality(Taken) = SentCount
    /\ \A d, e \in Taken : d # e => RangeOf(d) # RangeOf(e)

\* the ranges taken have no index in common
TakenDisjoint ==
    \A d, e \in Taken :
        d # e => \/ RangeOf(d).High <= RangeOf(e).Low
                 \/ RangeOf(e).High <= RangeOf(d).Low

\* every index of [0, n) lies in a range that was taken
TakenCover ==
    \A x \in 0..(collectionLen - 1) :
        \E d \in Taken : RangeOf(d).Low <= x /\ x < RangeOf(d).High

AllReadersEnded ==
    /\ readers # <<>>
    /\ \A i \in 1..Len(readers) : readers[i].pc = "ended"

\* the goroutine of Partition has terminated (none was started when p <= 0)
ProducerTerminated == pPc = "done" /\ pagesClosed

\* C26 as stated: with several readers of one Partition(n, p) channel every
\* range is delivered to exactly one reader, the ranges taken are disjoint and
\* cover [0, n), and in the end the channel is closed, every reader's loop has
\* ended and the producer has terminated
C26_ReadersAsStated ==
    /\ [](EachRangeOnce /\ TakenDisjoint)
    /\ [](AllReadersEnded => TakenCover)
    /\ <>[](AllReadersEnded /\ ProducerTerminated)

\* C26, for p > 0: as stated; for p <= 0 no range is delivered and nothing of
\* [0, n) is covered, the channel being closed at once
C26_Readers ==
    /\ [](EachRangeOnce /\ TakenDisjoint)
    /\ [](AllReadersEnded /\ partitionSize > 0 => TakenCover)
    /\ [](partitionSize <= 0 => Taken = {})
    /\ <>[](AllReadersEnded /\ ProducerTerminated)

\* three readers have each taken ranges of one partition and their loops
\* have ended
C26_Witness ==
    /\ AllReadersEnded
    /\ Len(readers) = 3
    /\ \A i \in 1..3 : Len(readers[i].received) >= 1
    /\ collectionLen = 5
    /\ partitionSize = 2
    /\ ProducerTerminated

\* -------------------------------------------------- sizes of batch requests
\* the batch-write requests handed to the transport so far
BatchWriteSizes ==
    {Len(calls[k].input.RequestItems[TableName]) :
        k \in {j \in 1..Len(calls) : calls[j].api = "BatchWriteItem"}}

\* the batch-get requests the chunk tasks handed to the transport so far
BatchGetSizes ==
    UNION {{Len(tasks[t].calls[k].input.RequestItems[TableName].Keys) :
               k \in 1..Len(tasks[t].calls)} : t \in 1..Len(tasks)}

\* C27: every batch-get and batch-write request handed to the transport by
\* GetByIDs, BulkAddRecords, BulkUpdateRecords and BulkDeleteRecords holds at
\* most 25 entries
C27_AtMost25Entries ==
    op \in {"GetByIDs", "BulkAddRecords", "BulkUpdateRecords", "BulkDeleteRecords"} =>
        \A n \in BatchWriteSizes \cup BatchGetSizes : n <= 25

\* what the code does: only the delete variant exceeds 25, with one entry per
\* input key
C27_OnlyDeleteExceeds ==
    /\ op \in {"GetByIDs", "BulkAddRecords", "BulkUpdateRecords"} =>
          \A n \in BatchWriteSizes \cup BatchGetSizes : n <= 25
    /\ op = "BulkDeleteRecords" => \A n \in BatchWriteSizes : n = Len(args.dbKeys)

\* ----------------------------------- partition key of the single requests
SingleWrites == {"AddRecord", "UpdateRecordByID", "Update", "DeleteRecordByID"}

\* the partition key attribute a put, update or delete request carries
PartitionValueOf(call) ==
    MapGet(IF call.api = "PutItem" THEN call.input.Item ELSE call.input.Key,
           config.TableInfo.PartitionKey)

CarriesPartitionValue(call) ==
    /\ PartitionValueOf(call) # Nil
    /\ "S" \in DOMAIN Deref(PartitionValueOf(call))
    /\ Deref(PartitionValueOf(call)).S # ""

\* the caller hands an empty partition key value and none is generated
EmptyPartitionKeySupplied ==
    \/ op \in {"UpdateRecordByID", "DeleteRecordByID"} /\ args.dbKeys.partitionKey = ""
    \/ op = "Update" /\ args.partKey = ""

\* C28: every put, update or delete request of AddRecord, UpdateRecordByID,
\* Update and DeleteRecordByID carries a non-empty partition key value; with
\* an empty partition key value supplied the operation returns an error and
\* makes no transport call
C28_PartitionKeyNotEmpty ==
    (op \in SingleWrites /\ phase = "returned") =>
        /\ \A k \in 1..Len(calls) : CarriesPartitionValue(calls[k])
        /\ EmptyPartitionKeySupplied => (calls = <<>> /\ ret.err # NoErr)

\* what the code does: the other three operations keep the rule
C28_AllButUpdateRecordByID ==
    (op \in SingleWrites \ {"UpdateRecordByID"} /\ phase = "returned") =>
        /\ \A k \in 1..Len(calls) : CarriesPartitionValue(calls[k])
        /\ EmptyPartitionKeySupplied => (calls = <<>> /\ ret.err # NoErr)

\* UpdateRecordByID with an empty partition key value on a well-configured
\* table: the put is made, with the empty value, and no error is returned
C28_EmptyKeyPut ==
    /\ op = "UpdateRecordByID"
    /\ phase = "returned"
    /\ config = DBConfig("table", "partKey", Nil)
    /\ args.dbKeys.partitionKey = ""
    /\ Len(calls) = 1
    /\ PartitionValueOf(calls[1]) = AttrS("")
    /\ ret.err = NoErr

\* --------------------------------- a scan with filter and key condition
FilterCalls ==
    CallsOf("WithCondition") \cup CallsOf("AndCondition") \cup CallsOf("OrCondition")

KeyConditionCalls == CallsOf("WithKeyCondition") \cup CallsOf("AndKeyCondition")

\* BuildScanInput compiled a wrapper with a table name, a filter condition
\* and a key condition
ScanWithBoth ==
    /\ wOut # <<>>
    /\ wOut.target = "BuildScanInput"
    /\ wrapper.dynamoDBTable # ""
    /\ FilterCalls # {}
    /\ KeyConditionCalls # {}

BothBuild ==
    TreeBuilds(wrapper.conditionExpression) /\ TreeBuilds(wrapper.keyCondition)

\* the paging the wrapper holds is on the request
PagingApplied ==
    /\ (wrapper.limit # Nil /\ Deref(wrapper.limit) >= 1)
          => Deref(wOut.input).Limit = wrapper.limit
    /\ MapLen(wrapper.exclusiveStartKey) > 0
          => Deref(wOut.input).ExclusiveStartKey = wrapper.exclusiveStartKey

C29_NoFilterWhenUnbuildable ==
    (ScanWithBoth /\ ~BothBuild) =>
        /\ wOut.err = NoErr
        /\ Deref(wOut.input).FilterExpression = Nil
        /\ PagingApplied

\* ------------------------------------------ errors of the compile operations
\* C30: for every compile operation of the builder, whenever the returned
\* error is non-nil the returned request is nil, also when the failure comes
\* from building the condition or update expression
C30_ErrorMeansNilRequest ==
    (wOut # <<>> /\ wOut.err # NoErr) => wOut.input = Nil

\* what the code does: BuildGetInput, BuildQueryInput and BuildScanInput
\* return no request with an error; BuildDeleteInput and BuildUpdateInput
\* return the request together with the error of a failed Build
C30_RequestWithBuildError ==
    (wOut # <<>> /\ wOut.err # NoErr) =>
        IF wOut.target \in {"BuildDeleteInput", "BuildUpdateInput"}
           /\ wOut.err = BuildError
        THEN wOut.input # Nil
        ELSE wOut.input = Nil

====
